---- MODULE Spec2Model ----
(***************************************************************************)
(* notion-to-astro-go: the text pipeline that turns a Notion page into a   *)
(* Markdown file with YAML frontmatter.                                    *)
(*                                                                         *)
(* A Go string is modelled as a sequence of code points, each written as a *)
(* one-character TLA+ string ("a", " ", "\n", "[", ...).  A code point     *)
(* whose UTF-8 encoding is longer than one byte is written by its name     *)
(* ("U3042").                                                              *)
(***************************************************************************)
EXTENDS Integers, Sequences, FiniteSets, TLC

VARIABLES
    \* processEmptyLines, applied repeatedly to one text
    original,       \* the text first given to processEmptyLines
    content,        \* the current text (processEmptyLines' argument/return value)
    previous,       \* the text before the last application
    resultLines,    \* the local slice `result` of the last application, before Join
    passes,         \* how many times processEmptyLines has been applied
    \* convertMarkdownLinksToPlainText, applied to one text
    linkText,       \* the argument `text`
    linkPlain,      \* the returned string
    linkPc,         \* "call" before the call, "return" after it
    \* generateFrontmatterYAML, applied to one Frontmatter value
    frontmatter,    \* the argument
    frontmatterYAML,\* the returned string
    fmPc,           \* "call" before the call, "return" after it
    \* processPage, applied to one page of the blog database
    descPage,       \* the argument `page`
    descResult,     \* the locals of processPage when it reaches the write
    descPc,         \* "call" before the call, "return" after it
    \* processPage, applied to one page
    pgCall,         \* the arguments, and the outcomes of the calls processPage makes
    pgResult,       \* the locals of processPage when it returns
    pgPc,           \* "call" before the call, "return" after it
    \* main
    env,            \* the environment variables and the -type flag
    config,         \* the Config loadConfig returned
    databases,      \* the rows of the blog and of the diary database in Notion
    pc,             \* where main is: "loadConfig", "main", "fetch", "pages",
                    \* "completed", "exited"
    todo,           \* the database types main has still to process
    dbConfig,       \* the copy of the config processDatabaseType works with
    pages,          \* the pages fetchDatabase returned
    cursor,         \* the index of the loop over pages
    processed,      \* the pages the loop has logged and handed to processPage
    dirs,           \* the directories os.MkdirAll has made
    files,          \* the Markdown files on disk: path |-> content
    last,           \* the last call of processPage and what it did
    \* downloadImage, called again and again for one page and one URL
    imgURL,         \* the argument imageURL
    imgDisk,        \* the file at outputPath: its bytes, or that there is none
    imgCalls,       \* how many calls have returned
    imgLast         \* the last call: where it left and what it returned

linesVars == <<original, content, previous, resultLines, passes>>
linkVars == <<linkText, linkPlain, linkPc>>
fmVars == <<frontmatter, frontmatterYAML, fmPc>>
descVars == <<descPage, descResult, descPc>>
pageVars == <<pgCall, pgResult, pgPc>>
batchVars ==
    <<env, config, databases, pc, todo, dbConfig, pages, cursor, processed, dirs,
      files, last>>

imageVars == <<imgURL, imgDisk, imgCalls, imgLast>>

vars == <<linesVars, linkVars, fmVars, descVars, pageVars, batchVars, imageVars>>

----------------------------------------------------------------------------
(* Bounds of the model *)

MaxLines == 5       \* lines of a text given to processEmptyLines
MaxPasses == 3      \* successive applications of processEmptyLines
MaxPieces == 4      \* pieces a text given to convertMarkdownLinksToPlainText is built from
MaxTags == 2        \* tags of a Frontmatter value
MaxSpans == 1       \* rich-text spans before the long span of a paragraph
MaxRepeat == 72     \* repetitions of the unit the long span is made of
MaxBlocks == 2      \* blocks of a page given to processPage
MaxRichText == 3    \* spans of the paragraph of a page given to processPage
MaxCalls == 3       \* calls of downloadImage for one page and URL
MaxExtra == 2       \* entries of a large database beyond PageSize
MaxHidden == 3      \* leading entries of a large database that may be published
MaxPages == 2       \* rows of the blog and of the diary database together
MaxRows == 3        \* rows of the database that is queried alone

----------------------------------------------------------------------------
(* strings package *)

\* unicode.IsSpace, on the characters of the model's alphabet
IsSpace(c) == c \in {" ", "\n", "\t", "\r"}

RECURSIVE TrimLeft(_)
TrimLeft(s) ==
    IF s # <<>> /\ IsSpace(Head(s)) THEN TrimLeft(Tail(s)) ELSE s

RECURSIVE TrimRight(_)
TrimRight(s) ==
    IF s # <<>> /\ IsSpace(s[Len(s)]) THEN TrimRight(SubSeq(s, 1, Len(s) - 1)) ELSE s

\* strings.TrimSpace
TrimSpace(s) == TrimRight(TrimLeft(s))

\* the positions of s that hold c, in increasing order
PositionsOf(s, c) == SelectSeq([ i \in 1..Len(s) |-> i ], LAMBDA i : s[i] = c)

\* strings.Split(s, sep) for a one-character separator: the pieces between
\* the separators, always one more than there are separators
Split(s, sep) ==
    LET seps == PositionsOf(s, sep)
    IN  [ n \in 1..(Len(seps) + 1) |->
            SubSeq(s, IF n = 1 THEN 1 ELSE seps[n - 1] + 1,
                      IF n > Len(seps) THEN Len(s) ELSE seps[n] - 1) ]

\* strings.Join(elems, sep) for a one-character separator
RECURSIVE Join(_, _)
Join(elems, sep) ==
    IF elems = <<>> THEN <<>>
    ELSE IF Len(elems) = 1 THEN elems[1]
    ELSE elems[1] \o <<sep>> \o Join(Tail(elems), sep)

\* the frontmatter delimiter line
Dashes == <<"-", "-", "-">>

----------------------------------------------------------------------------
(* processEmptyLines *)

\* A variant that keeps every blank line after the first of a run
\* (`else if emptyLineCount >= 2`).
RECURSIVE processEmptyLinesLoopKeepRest(_, _, _, _)
processEmptyLinesLoopKeepRest(lines, i, result, emptyLineCount) ==
    IF i > Len(lines) THEN result
    ELSE LET line == lines[i]
         IN  IF TrimSpace(line) = <<>>
             THEN IF emptyLineCount + 1 = 1
                  THEN IF i > 1 /\ TrimSpace(lines[i - 1]) = Dashes
                       THEN processEmptyLinesLoopKeepRest(lines, i + 1, Append(result, line),
                                                          emptyLineCount + 1)
                       ELSE processEmptyLinesLoopKeepRest(lines, i + 1, result,
                                                          emptyLineCount + 1)
                  ELSE processEmptyLinesLoopKeepRest(lines, i + 1, Append(result, line),
                                                     emptyLineCount + 1)
             ELSE processEmptyLinesLoopKeepRest(lines, i + 1, Append(result, line), 0)

\* A variant without the frontmatter exception: the first blank line of a run
\* is always dropped.
RECURSIVE processEmptyLinesLoopNoSeparator(_, _, _, _)
processEmptyLinesLoopNoSeparator(lines, i, result, emptyLineCount) ==
    IF i > Len(lines) THEN result
    ELSE LET line == lines[i]
         IN  IF TrimSpace(line) = <<>>
             THEN IF emptyLineCount + 1 = 2
                  THEN processEmptyLinesLoopNoSeparator(lines, i + 1, Append(result, line),
                                                        emptyLineCount + 1)
                  ELSE processEmptyLinesLoopNoSeparator(lines, i + 1, result,
                                                        emptyLineCount + 1)
             ELSE processEmptyLinesLoopNoSeparator(lines, i + 1, Append(result, line), 0)

\* A variant that keeps the trimmed line in place of the line.
RECURSIVE processEmptyLinesLoopTrimmed(_, _, _, _)
processEmptyLinesLoopTrimmed(lines, i, result, emptyLineCount) ==
    IF i > Len(lines) THEN result
    ELSE LET line == TrimSpace(lines[i])
         IN  IF line = <<>>
             THEN IF emptyLineCount + 1 = 1
                  THEN IF i > 1 /\ TrimSpace(lines[i - 1]) = Dashes
                       THEN processEmptyLinesLoopTrimmed(lines, i + 1, Append(result, line),
                                                         emptyLineCount + 1)
                       ELSE processEmptyLinesLoopTrimmed(lines, i + 1, result,
                                                         emptyLineCount + 1)
                  ELSE IF emptyLineCount + 1 = 2
                  THEN processEmptyLinesLoopTrimmed(lines, i + 1, Append(result, line),
                                                    emptyLineCount + 1)
                  ELSE processEmptyLinesLoopTrimmed(lines, i + 1, result,
                                                    emptyLineCount + 1)
             ELSE processEmptyLinesLoopTrimmed(lines, i + 1, Append(result, line), 0)

\* The loop `for i, line := range lines` with its two locals; i is 1-based here.
RECURSIVE processEmptyLinesLoop(_, _, _, _)
processEmptyLinesLoop(lines, i, result, emptyLineCount) ==
    IF i > Len(lines) THEN result
    ELSE LET line == lines[i]
             trimmedLine == TrimSpace(line)
         IN  IF trimmedLine = <<>>
             THEN LET count == emptyLineCount + 1
                  IN  IF count = 1
                      THEN IF i > 1 /\ TrimSpace(lines[i - 1]) = Dashes
                           THEN processEmptyLinesLoop(lines, i + 1, Append(result, line), count)
                           ELSE processEmptyLinesLoop(lines, i + 1, result, count)
                      ELSE IF count = 2
                      THEN processEmptyLinesLoop(lines, i + 1, Append(result, line), count)
                      ELSE processEmptyLinesLoop(lines, i + 1, result, count)
             ELSE processEmptyLinesLoop(lines, i + 1, Append(result, line), 0)

\* the slice `result` when the loop ends
processEmptyLinesResult(text) == processEmptyLinesLoop(Split(text, "\n"), 1, <<>>, 0)

processEmptyLines(text) == Join(processEmptyLinesResult(text), "\n")

----------------------------------------------------------------------------
(* convertMarkdownLinksToPlainText: regexp \[([^\]]+)\]\([^)]+\) replaced by $1 *)

\* a negated character class [^c] under a greedy quantifier, from position p:
\* the first position at or after p that holds c, Len(s) + 1 when there is none
scanUntil(s, p, c) ==
    LET at == SelectSeq(PositionsOf(s, c), LAMBDA q : q >= p)
    IN  IF at = <<>> THEN Len(s) + 1 ELSE at[1]

\* A variant whose classes carry `*`: the link text and the URL may be empty.
linkMatchAtStar(s, i) ==
    IF s[i] # "[" THEN <<>>
    ELSE LET j == scanUntil(s, i + 1, "]")
         IN  IF j > Len(s) THEN <<>>
             ELSE IF j + 1 > Len(s) \/ s[j + 1] # "(" THEN <<>>
             ELSE LET k == scanUntil(s, j + 2, ")")
                  IN  IF k > Len(s) THEN <<>> ELSE <<j, k>>

\* A variant that takes every `[text]` for a link, whatever follows it.
linkMatchAtBracketOnly(s, i) ==
    IF s[i] # "[" THEN <<>>
    ELSE LET j == scanUntil(s, i + 1, "]")
         IN  IF j = i + 1 \/ j > Len(s) THEN <<>> ELSE <<j, j>>

\* The match of the whole pattern starting at position i: <<j, k>>, the
\* positions of its `]` and its final `)`, or <<>> when there is none.  Both
\* classes carry `+`: at least one character each.
linkMatchAt(s, i) ==
    IF s[i] # "[" THEN <<>>
    ELSE LET j == scanUntil(s, i + 1, "]")
         IN  IF j = i + 1 \/ j > Len(s) THEN <<>>
             ELSE IF j + 1 > Len(s) \/ s[j + 1] # "(" THEN <<>>
             ELSE LET k == scanUntil(s, j + 2, ")")
                  IN  IF k = j + 2 \/ k > Len(s) THEN <<>> ELSE <<j, k>>

\* re.ReplaceAllString(text, "$1"): from position i, the text up to the
\* leftmost match is copied, the match gives its group 1, and the search goes
\* on from the end of the match
RECURSIVE replaceAllLinks(_, _, _)
replaceAllLinks(s, i, out) ==
    LET starts == SelectSeq(PositionsOf(s, "["),
                            LAMBDA q : q >= i /\ linkMatchAt(s, q) # <<>>)
    IN  IF starts = <<>> THEN out \o SubSeq(s, i, Len(s))
        ELSE LET m == linkMatchAt(s, starts[1])
             IN  replaceAllLinks(s, m[2] + 1,
                                 out \o SubSeq(s, i, starts[1] - 1)
                                     \o SubSeq(s, starts[1] + 1, m[1] - 1))

convertMarkdownLinksToPlainText(text) == replaceAllLinks(text, 1, <<>>)

----------------------------------------------------------------------------
(* generateFrontmatterYAML *)

\* the keys written by the fmt.Sprintf formats, and the `: ` that follows them
KeyID == <<"i", "d">>
KeyTitle == <<"t", "i", "t", "l", "e">>
KeyDescription == <<"d", "e", "s", "c", "r", "i", "p", "t", "i", "o", "n">>
KeyPublishedAt == <<"p", "u", "b", "l", "i", "s", "h", "e", "d", "A", "t">>
KeyDate == <<"d", "a", "t", "e">>
KeyTags == <<"t", "a", "g", "s">>
KeyDraft == <<"d", "r", "a", "f", "t">>
KeyWeather == <<"w", "e", "a", "t", "h", "e", "r">>
ColonSpace == <<":", " ">>
True == <<"t", "r", "u", "e">>

\* fmt.Sprintf("<key>: %s\n", value)
yamlLine(key, value) == key \o ColonSpace \o value \o <<"\n">>

\* the loop over frontmatter.Tags: `, ` before every tag but the first, each
\* tag in double quotes
RECURSIVE yamlTags(_, _)
yamlTags(tags, i) ==
    IF i > Len(tags) THEN <<>>
    ELSE (IF i > 1 THEN <<",", " ">> ELSE <<>>)
         \o <<"\"">> \o tags[i] \o <<"\"">>
         \o yamlTags(tags, i + 1)

yamlTagsLine(tags) ==
    KeyTags \o ColonSpace \o <<"[">> \o yamlTags(tags, 1) \o <<"]", "\n">>

\* A variant that writes the weather line before the draft line.
generateFrontmatterYAMLWeatherFirst(fm) ==
       (IF fm.ID # <<>> THEN yamlLine(KeyID, fm.ID) ELSE <<>>)
    \o yamlLine(KeyTitle, fm.Title)
    \o (IF fm.Description # <<>> THEN yamlLine(KeyDescription, fm.Description) ELSE <<>>)
    \o (IF fm.PublishedAt # <<>> THEN yamlLine(KeyPublishedAt, fm.PublishedAt) ELSE <<>>)
    \o (IF fm.Date # <<>> THEN yamlLine(KeyDate, fm.Date) ELSE <<>>)
    \o (IF Len(fm.Tags) > 0 THEN yamlTagsLine(fm.Tags) ELSE <<>>)
    \o (IF fm.Weather # <<>> THEN yamlLine(KeyWeather, fm.Weather) ELSE <<>>)
    \o (IF fm.Draft THEN yamlLine(KeyDraft, True) ELSE <<>>)

\* A variant that writes the description line without testing the field.
generateFrontmatterYAMLAlwaysDescription(fm) ==
       (IF fm.ID # <<>> THEN yamlLine(KeyID, fm.ID) ELSE <<>>)
    \o yamlLine(KeyTitle, fm.Title)
    \o yamlLine(KeyDescription, fm.Description)
    \o (IF fm.PublishedAt # <<>> THEN yamlLine(KeyPublishedAt, fm.PublishedAt) ELSE <<>>)
    \o (IF fm.Date # <<>> THEN yamlLine(KeyDate, fm.Date) ELSE <<>>)
    \o (IF Len(fm.Tags) > 0 THEN yamlTagsLine(fm.Tags) ELSE <<>>)
    \o (IF fm.Draft THEN yamlLine(KeyDraft, True) ELSE <<>>)
    \o (IF fm.Weather # <<>> THEN yamlLine(KeyWeather, fm.Weather) ELSE <<>>)

\* The strings.Builder after each conditional WriteString, in the order of
\* the function body.  UpdatedAt is a field of the struct that is never written.
generateFrontmatterYAML(fm) ==
       (IF fm.ID # <<>> THEN yamlLine(KeyID, fm.ID) ELSE <<>>)
    \o yamlLine(KeyTitle, fm.Title)
    \o (IF fm.Description # <<>> THEN yamlLine(KeyDescription, fm.Description) ELSE <<>>)
    \o (IF fm.PublishedAt # <<>> THEN yamlLine(KeyPublishedAt, fm.PublishedAt) ELSE <<>>)
    \o (IF fm.Date # <<>> THEN yamlLine(KeyDate, fm.Date) ELSE <<>>)
    \o (IF Len(fm.Tags) > 0 THEN yamlTagsLine(fm.Tags) ELSE <<>>)
    \o (IF fm.Draft THEN yamlLine(KeyDraft, True) ELSE <<>>)
    \o (IF fm.Weather # <<>> THEN yamlLine(KeyWeather, fm.Weather) ELSE <<>>)

\* the zero value of the struct
ZeroFrontmatter ==
    [ ID |-> <<>>, Title |-> <<>>, Description |-> <<>>, PublishedAt |-> <<>>,
      UpdatedAt |-> <<>>, Date |-> <<>>, Tags |-> <<>>, Draft |-> FALSE,
      Weather |-> <<>> ]

----------------------------------------------------------------------------
(* extractRichText and retrievePageContent *)

\* a span rendered by its text alone, with or without a link
richTextPieceTextOnly(rt) == rt.PlainText

\* one notionapi.RichText: `[PlainText](Href)` when it has a link
richTextPiece(rt) ==
    IF rt.Href # <<>>
    THEN <<"[">> \o rt.PlainText \o <<"]", "(">> \o rt.Href \o <<")">>
    ELSE rt.PlainText

RECURSIVE extractRichText(_)
extractRichText(richText) ==
    IF richText = <<>> THEN <<>>
    ELSE richTextPiece(Head(richText)) \o extractRichText(Tail(richText))

\* the three backticks of a code fence; a backtick is written by its name
CodeFence == <<"U0060", "U0060", "U0060">>

HardBreak == <<" ", " ", "\n">>
HardBreakBlank == <<" ", " ", "\n", "\n">>

TodoChecked == <<"-", " ", "[", "x", "]", " ">>
TodoUnchecked == <<"-", " ", "[", " ", "]", " ">>
ImageOpen == <<"!", "[", "I", "m", "a", "g", "e", "]", "(">>
ImagesPrefix == <<"/", "i", "m", "a", "g", "e", "s", "/">>

\* the URL of an image block: of its External or its File part, by Image.Type
imageURLOf(block) ==
    IF block.ImageType = "external" THEN block.URL
    ELSE IF block.ImageType = "file" THEN block.URL
    ELSE <<>>

\* renderBlock with a paragraph that ends in a newline only
renderBlockNoHardBreak(block, download) ==
    IF block.Type = "paragraph" THEN extractRichText(block.RichText) \o <<"\n", "\n">>
    ELSE <<>>

\* renderBlock that writes nothing for an image whose download failed
renderBlockDropFailedImage(block, download) ==
    IF block.Type = "paragraph" THEN extractRichText(block.RichText) \o HardBreakBlank
    ELSE IF block.Type = "image" /\ imageURLOf(block) # <<>> /\ ~download.err
    THEN ImageOpen \o ImagesPrefix \o download.filename \o <<")">> \o HardBreakBlank
    ELSE <<>>

\* One case of the switch on block.GetType().  `download` is what
\* downloadImage returns for the image's URL: [err, filename].
renderBlock(block, download) ==
    LET text == extractRichText(block.RichText)
    IN  CASE block.Type = "paragraph" -> text \o HardBreakBlank
          [] block.Type = "heading_1" -> <<"#", " ">> \o text \o HardBreakBlank
          [] block.Type = "heading_2" -> <<"#", "#", " ">> \o text \o HardBreakBlank
          [] block.Type = "heading_3" -> <<"#", "#", "#", " ">> \o text \o HardBreakBlank
          [] block.Type = "bulleted_list_item" -> <<"-", " ">> \o text \o HardBreak
          [] block.Type = "numbered_list_item" -> <<"1", ".", " ">> \o text \o HardBreak
          [] block.Type = "to_do" ->
                 (IF block.Checked THEN TodoChecked ELSE TodoUnchecked)
                 \o text \o HardBreak
          [] block.Type = "code" ->
                 CodeFence \o block.Language \o HardBreak \o text \o HardBreak
                 \o CodeFence \o HardBreakBlank
          [] block.Type = "quote" -> <<">", " ">> \o text \o HardBreakBlank
          [] block.Type = "divider" -> <<"-", "-", "-">> \o HardBreakBlank
          [] block.Type = "image" ->
                 IF imageURLOf(block) = <<>> THEN <<>>
                 ELSE IF download.err
                 THEN ImageOpen \o imageURLOf(block) \o <<")">> \o HardBreakBlank
                 ELSE ImageOpen \o ImagesPrefix \o download.filename
                      \o <<")">> \o HardBreakBlank
          [] OTHER -> <<>>

\* a loop over the blocks that numbers the items of a list by their place
RECURSIVE renderBlocksCounting(_, _, _)
renderBlocksCounting(blocks, downloads, i) ==
    IF i > Len(blocks) THEN <<>>
    ELSE (IF blocks[i].Type = "numbered_list_item"
          THEN <<(IF i = 1 THEN "1" ELSE "2"), ".", " ">> \o extractRichText(blocks[i].RichText) \o HardBreak
          ELSE renderBlock(blocks[i], downloads[i]))
         \o renderBlocksCounting(blocks, downloads, i + 1)

\* the loop over resp.Results; downloads[i] is downloadImage's result for block i
RECURSIVE renderBlocks(_, _, _)
renderBlocks(blocks, downloads, i) ==
    IF i > Len(blocks) THEN <<>>
    ELSE renderBlock(blocks[i], downloads[i]) \o renderBlocks(blocks, downloads, i + 1)

\* retrievePageContent when Block.GetChildren succeeds
retrievePageContent(blocks, downloads) == renderBlocks(blocks, downloads, 1)

----------------------------------------------------------------------------
(* The blog description: lines 428-453 of processPage *)

\* strings.ReplaceAll(pageContent, "\n", " ")
replaceNewlines(s) == [ n \in 1..Len(s) |-> IF s[n] = "\n" THEN " " ELSE s[n] ]

\* the class \s of Go's regexp: [\t\n\f\r ]
IsRegexpSpace(c) == c \in {" ", "\t", "\n", "\f", "\r"}

\* regexp.MustCompile(`\s+`).ReplaceAllString(s, " ")
\* every match (a maximal run of \s) gives one space: its first character is
\* replaced by the space, the others go
collapseSpaces(s) ==
    LET marked == [ i \in 1..Len(s) |->
                      IF ~IsRegexpSpace(s[i]) THEN <<s[i]>>
                      ELSE IF i > 1 /\ IsRegexpSpace(s[i - 1]) THEN <<>>
                      ELSE <<" ">> ]
        kept == SelectSeq(marked, LAMBDA m : m # <<>>)
    IN  [ i \in 1..Len(kept) |-> kept[i][1] ]

\* descriptionText after line 436: newlines replaced, whitespace runs
\* collapsed, trimmed
normalizeWhitespace(s) == TrimSpace(collapseSpaces(replaceNewlines(s)))

\* The UTF-8 length of a code point.  "U3042" (HIRAGANA LETTER A) takes three
\* bytes, the other characters of the model one.
Utf8Len(c) == IF c = "U3042" THEN 3 ELSE 1

\* utf8.UTFMax: no encoding is longer
UTFMax == 4

\* the bytes of a string; byte k of code point c is written <<c, k>>
EncodeUTF8(s) ==
    LET slots == [ i \in 1..(UTFMax * Len(s)) |->
                     LET c == s[((i - 1) \div UTFMax) + 1]
                         k == ((i - 1) % UTFMax) + 1
                     IN  IF k <= Utf8Len(c) THEN <<c, k>> ELSE <<c, 0>> ]
    IN  SelectSeq(slots, LAMBDA b : b[2] # 0)

\* byte i of b belongs to a complete encoding of its code point
inCompleteEncoding(b, i) ==
    LET c == b[i][1]
        first == i - b[i][2] + 1
    IN  /\ first >= 1
        /\ first + Utf8Len(c) - 1 <= Len(b)
        /\ \A k \in 1..Utf8Len(c) : b[first + k - 1] = <<c, k>>

\* []rune(string): a complete encoding gives its code point, any other byte
\* gives U+FFFD
DecodeRunes(b) ==
    LET marked == [ i \in 1..Len(b) |->
                      IF ~inCompleteEncoding(b, i) THEN <<"UFFFD">>
                      ELSE IF b[i][2] = 1 THEN <<b[i][1]>>
                      ELSE <<>> ]
        kept == SelectSeq(marked, LAMBDA m : m # <<>>)
    IN  [ i \in 1..Len(kept) |-> kept[i][1] ]

\* the number of characters a description keeps
DescriptionLimit == 70

\* A variant that counts and cuts bytes: `if len(s) > 70 { s[:70] }`.
truncateBytes(text, limit) ==
    LET bytes == EncodeUTF8(text)
    IN  IF Len(bytes) > limit
        THEN [ cut |-> TRUE, text |-> DecodeRunes(SubSeq(bytes, 1, limit)) ]
        ELSE [ cut |-> FALSE, text |-> text ]

\* runes := []rune(descriptionText); string(runes[:70]) when len(runes) > 70
truncateRunes(text, limit) ==
    LET runes == DecodeRunes(EncodeUTF8(text))
    IN  IF Len(runes) > limit
        THEN [ cut |-> TRUE, text |-> SubSeq(runes, 1, limit) ]
        ELSE [ cut |-> FALSE, text |-> text ]

Ellipsis == <<".", ".", ".">>

\* The locals of the description block, for a non-empty pageContent:
\* normalized is descriptionText after line 436, descriptionText after line
\* 439, truncated is string(runes[:70]) or the whole text.
blogDescription(pageContent) ==
    LET normalized == normalizeWhitespace(pageContent)
        descriptionText == convertMarkdownLinksToPlainText(normalized)
        t == truncateRunes(descriptionText, DescriptionLimit)
    IN  [ normalized |-> normalized,
          descriptionText |-> descriptionText,
          truncated |-> t.text,
          Description |-> IF t.cut THEN t.text \o Ellipsis ELSE descriptionText ]

----------------------------------------------------------------------------
(* processPage *)

\* A notionapi.Page is [ID, Properties, CreatedTime, Children]: Properties
\* maps property names to [Type, Title, MultiSelect, RichText, Printed]
\* (Printed is the property as fmt's %v prints it), Children are the blocks
\* Block.GetChildren returns for the page.

HasProperty(page, name) == name \in DOMAIN page.Properties

\* `tp, ok := prop.(*notionapi.TitleProperty); ok && len(tp.Title) > 0`, then
\* tp.Title[0].PlainText
titleOfProperty(prop) ==
    IF prop.Type = "title" /\ Len(prop.Title) > 0 THEN prop.Title[1].PlainText ELSE <<>>

\* a title lookup that never comes back empty: the page ID stands in for a
\* missing title
pageTitleOrID(page) ==
    LET found == { a \in {"title", "Title", "Name", "titile"} :
                     HasProperty(page, a) /\ titleOfProperty(page.Properties[a]) # <<>> }
    IN  IF found = {} THEN page.ID
        ELSE titleOfProperty(page.Properties[CHOOSE a \in found : TRUE])

\* the else-if chain of processPage over the property names
pageTitle(page) ==
    IF HasProperty(page, "title") THEN titleOfProperty(page.Properties["title"])
    ELSE IF HasProperty(page, "Title") THEN titleOfProperty(page.Properties["Title"])
    ELSE IF HasProperty(page, "Name") THEN titleOfProperty(page.Properties["Name"])
    ELSE IF HasProperty(page, "titile") THEN titleOfProperty(page.Properties["titile"])
    ELSE <<>>

\* strings.TrimSuffix(s, "}")
trimBraceSuffix(s) ==
    IF s # <<>> /\ s[Len(s)] = "}" THEN SubSeq(s, 1, Len(s) - 1) ELSE s

\* frontmatter.ID: the page ID, or the last word of the printed "ID"/"id" property
pageFrontmatterID(page) ==
    LET name == IF HasProperty(page, "ID") THEN "ID" ELSE "id"
    IN  IF HasProperty(page, name)
        THEN LET parts == Split(page.Properties[name].Printed, " ")
             IN  trimBraceSuffix(parts[Len(parts)])
        ELSE page.ID

multiSelectNames(prop) == prop.MultiSelect

\* frontmatter.Tags: from "tags", else from "Tags", when it is a multi-select
pageTags(page) ==
    IF HasProperty(page, "tags")
    THEN IF page.Properties["tags"].Type = "multi_select"
         THEN multiSelectNames(page.Properties["tags"]) ELSE <<>>
    ELSE IF HasProperty(page, "Tags")
    THEN IF page.Properties["Tags"].Type = "multi_select"
         THEN multiSelectNames(page.Properties["Tags"]) ELSE <<>>
    ELSE <<>>

\* frontmatter.Weather, for the diary database only
pageWeather(page, DatabaseType) ==
    IF DatabaseType = "diary" /\ HasProperty(page, "weather")
    THEN LET prop == page.Properties["weather"]
         IN  IF prop.Type = "rich_text" /\ Len(prop.RichText) > 0
             THEN prop.RichText[1].PlainText ELSE <<>>
    ELSE <<>>

Digits == <<"0", "1", "2", "3", "4", "5", "6", "7", "8", "9">>
Digit(n) == Digits[n + 1]

\* page.CreatedTime.Format("2006-01-02"): four digits, `-`, two, `-`, two
formatDate(t) ==
    << Digit(t.year \div 1000), Digit((t.year \div 100) % 10),
       Digit((t.year \div 10) % 10), Digit(t.year % 10), "-",
       Digit(t.month \div 10), Digit(t.month % 10), "-",
       Digit(t.day \div 10), Digit(t.day % 10) >>

\* the body used when retrievePageContent returns an error
Placeholder ==
    << "T", "h", "i", "s", " ", "c", "o", "n", "t", "e", "n", "t", " ", "w",
       "a", "s", " ", "i", "m", "p", "o", "r", "t", "e", "d", " ", "f", "r",
       "o", "m", " ", "N", "o", "t", "i", "o", "n", ",", " ", "b", "u", "t",
       " ", "t", "h", "e", " ", "c", "o", "n", "t", "e", "n", "t", " ", "c",
       "o", "u", "l", "d", " ", "n", "o", "t", " ", "b", "e", " ", "r", "e",
       "t", "r", "i", "e", "v", "e", "d", "." >>

FrontmatterOpen == <<"-", "-", "-", "\n">>
FrontmatterClose == <<"-", "-", "-", "\n", "\n">>

\* the characters generateFilename replaces: / \ : * ? " < > |
InvalidFilenameChars == {"/", "\\", ":", "*", "?", "\"", "<", ">", "|"}

DotMd == <<".", "m", "d">>

\* generateFilename: its own title chain (without "titile"), the page ID when
\* that finds nothing, invalid characters replaced by `_`, ".md" appended
generateFilename(page) ==
    LET found ==
            IF HasProperty(page, "title") THEN titleOfProperty(page.Properties["title"])
            ELSE IF HasProperty(page, "Title") THEN titleOfProperty(page.Properties["Title"])
            ELSE IF HasProperty(page, "Name") THEN titleOfProperty(page.Properties["Name"])
            ELSE <<>>
        title == IF found = <<>> THEN page.ID ELSE found
    IN  [ n \in 1..Len(title) |->
            IF title[n] \in InvalidFilenameChars THEN "_" ELSE title[n] ] \o DotMd

\* filepath.Ext: from the last `.` of the last path element, "" without one
RECURSIVE extFrom(_, _)
extFrom(name, i) ==
    IF i < 1 \/ name[i] = "/" THEN <<>>
    ELSE IF name[i] = "." THEN SubSeq(name, i, Len(name))
    ELSE extFrom(name, i - 1)

Ext(name) == extFrom(name, Len(name))

\* strings.TrimSuffix
TrimSuffix(s, suffix) ==
    IF Len(suffix) <= Len(s) /\ SubSeq(s, Len(s) - Len(suffix) + 1, Len(s)) = suffix
    THEN SubSeq(s, 1, Len(s) - Len(suffix))
    ELSE s

\* the diary's date prefix
pageFilename(page, DatabaseType, date) ==
    LET filename == generateFilename(page)
    IN  IF DatabaseType = "diary" /\ date # <<>>
        THEN date \o <<"_">> \o TrimSuffix(filename, Ext(filename)) \o Ext(filename)
        ELSE filename

\* outputDir of processPage; config.BlogOutputDir and config.DiaryOutputDir
\* are written "blog" and "diary"
pageOutputDir(DatabaseType) ==
    IF DatabaseType = "blog" THEN "blog"
    ELSE IF DatabaseType = "diary" THEN "diary"
    ELSE "content"

\* the locals of the description block when it is not entered
ZeroDescription ==
    [ normalized |-> <<>>, descriptionText |-> <<>>, truncated |-> <<>>,
      Description |-> <<>> ]

\* a page body that is left empty when the blocks cannot be fetched
retrievedOrNothing(children, downloads, fetchErr) ==
    IF fetchErr THEN <<>> ELSE retrievePageContent(children, downloads)

\* pageContent of processPage after the call of retrievePageContent: the
\* placeholder when the call returned an error
retrievedOrPlaceholder(children, downloads, fetchErr) ==
    IF fetchErr THEN Placeholder ELSE retrievePageContent(children, downloads)

\* processPage: the locals it has computed when it returns, and whether it
\* has written the file.  skipped: it returned at the missing title, before
\* any fetch.  fetchErr: Block.GetChildren failed; downloads: downloadImage's
\* results; mkdirErr, writeErr: os.MkdirAll, os.WriteFile failed.
processPage(page, DatabaseType, fetchErr, downloads, mkdirErr, writeErr) ==
    LET title == pageTitle(page)
        date == formatDate(page.CreatedTime)
        pageContent == retrievedOrPlaceholder(page.Children, downloads, fetchErr)
        description ==
            IF DatabaseType = "blog" /\ pageContent # <<>>
            THEN blogDescription(pageContent)
            ELSE ZeroDescription
        fm == [ ID |-> pageFrontmatterID(page),
                Title |-> title,
                Description |-> description.Description,
                PublishedAt |-> <<>>,
                UpdatedAt |-> <<>>,
                Date |-> date,
                Tags |-> pageTags(page),
                Draft |-> FALSE,
                Weather |-> pageWeather(page, DatabaseType) ]
        frontmatterText == generateFrontmatterYAML(fm)
        assembled == FrontmatterOpen \o frontmatterText \o FrontmatterClose \o pageContent
    IN  IF title = <<>>
        THEN [ skipped |-> TRUE, fetchCalls |-> 0, fetched |-> FALSE,
               frontmatter |-> ZeroFrontmatter,
               pageContent |-> <<>>, description |-> ZeroDescription,
               content |-> <<>>, dir |-> "", filename |-> <<>>,
               dirMade |-> FALSE, mkdirFailed |-> FALSE, writeCalls |-> 0,
               writeFailed |-> FALSE, written |-> FALSE ]
        ELSE [ skipped |-> FALSE, fetchCalls |-> 1, fetched |-> ~fetchErr,
               frontmatter |-> fm,
               pageContent |-> pageContent, description |-> description,
               content |-> processEmptyLines(assembled),
               dir |-> pageOutputDir(DatabaseType),
               filename |-> pageFilename(page, DatabaseType, date),
               dirMade |-> ~mkdirErr, mkdirFailed |-> mkdirErr,
               writeCalls |-> IF mkdirErr THEN 0 ELSE 1,
               writeFailed |-> ~mkdirErr /\ writeErr,
               written |-> ~mkdirErr /\ ~writeErr ]

----------------------------------------------------------------------------
(* Specification SpecLines: processEmptyLines applied to every small text *)

\* the lines a text is built from: empty, whitespace-only, the frontmatter
\* delimiter, a divider as rendered ("---  "), and text with and without a
\* hard line break
LineChoices ==
    { <<>>, <<" ">>, Dashes, Dashes \o <<" ", " ">>, <<"a">>, <<"a", " ", " ">> }

LineTexts ==
    UNION { { Join(ls, "\n") : ls \in [1..n -> LineChoices] } : n \in 1..MaxLines }

\* no call of downloadImage is followed
NoDownloadCall ==
    [ called |-> FALSE, ext |-> <<>>, leftAt |-> "", writeFailed |-> FALSE,
      filename |-> <<>>, err |-> FALSE ]

ImageIdle ==
    /\ imgURL = <<>>
    /\ imgDisk = "none"
    /\ imgCalls = 0
    /\ imgLast = NoDownloadCall

LinesIdle ==
    /\ original = <<>>
    /\ content = <<>>
    /\ previous = <<>>
    /\ resultLines = <<>>
    /\ passes = 0

LinkIdle ==
    /\ linkText = <<>>
    /\ linkPlain = <<>>
    /\ linkPc = "idle"

FmIdle ==
    /\ frontmatter = ZeroFrontmatter
    /\ frontmatterYAML = <<>>
    /\ fmPc = "idle"

\* a page with no property and no block
ZeroPage ==
    [ ID |-> <<>>, Properties |-> <<>>, CreatedTime |-> [year |-> 1, month |-> 1, day |-> 1],
      Children |-> <<>> ]

\* what processPage returns for the page without a title
Skipped == processPage(ZeroPage, "", FALSE, <<>>, FALSE, FALSE)

DescIdle ==
    /\ descPage = ZeroPage
    /\ descResult = Skipped
    /\ descPc = "idle"

\* no call of processPage is to be made
NoArguments ==
    [ page |-> ZeroPage, DatabaseType |-> "", fetchErr |-> FALSE, downloads |-> <<>>,
      mkdirErr |-> FALSE, writeErr |-> FALSE ]

\* before any call of processPage
NoCall ==
    [ called |-> FALSE, page |-> ZeroPage, DatabaseType |-> "", result |-> Skipped ]

PageIdle ==
    /\ pgCall = NoArguments
    /\ pgResult = Skipped
    /\ pgPc = "idle"

\* the Config before loadConfig has filled it
ZeroConfig ==
    [ NotionAPIToken |-> "", NotionBlogDatabaseID |-> "", NotionDiaryDatabaseID |-> "",
      DatabaseType |-> "" ]

BatchIdle ==
    /\ env = [ NotionAPIToken |-> "", NotionBlogDatabaseID |-> "",
               NotionDiaryDatabaseID |-> "", type |-> "" ]
    /\ config = ZeroConfig
    /\ databases = [ blog |-> <<>>, diary |-> <<>> ]
    /\ pc = "idle"
    /\ todo = <<>>
    /\ dbConfig = ZeroConfig
    /\ pages = <<>>
    /\ cursor = 0
    /\ processed = <<>>
    /\ dirs = {}
    /\ files = <<>>
    /\ last = NoCall

InitLines ==
    /\ ImageIdle
    /\ BatchIdle
    /\ PageIdle
    /\ LinkIdle
    /\ FmIdle
    /\ DescIdle
    /\ original \in LineTexts
    /\ content = original
    /\ previous = original
    /\ resultLines = <<>>
    /\ passes = 0

ProcessEmptyLines ==
    /\ passes < MaxPasses
    /\ previous' = content
    /\ resultLines' = processEmptyLinesResult(content)
    /\ content' = processEmptyLines(content)
    /\ passes' = passes + 1
    /\ UNCHANGED <<original, linkVars, fmVars, descVars, pageVars, batchVars, imageVars>>

NextLines == ProcessEmptyLines

SpecLines == InitLines /\ [][NextLines]_vars

----------------------------------------------------------------------------
(* Blank-line runs of a text, described by position and not by the loop *)

IsBlank(line) == \A k \in 1..Len(line) : IsSpace(line[k])

\* the indices of the non-blank lines
NonBlank(lines) == { i \in 1..Len(lines) : ~IsBlank(lines[i]) }

\* the number of non-blank lines before line i: the gap line i lies in
GapOf(lines, i) == Cardinality({ j \in NonBlank(lines) : j < i })

\* the length of the maximal blank run in gap g (0: before the first non-blank line)
GapLen(lines, g) ==
    Cardinality({ i \in 1..Len(lines) : IsBlank(lines[i]) /\ GapOf(lines, i) = g })

\* the line right before gap g trims to `---`
AfterDashes(lines, g) ==
    \E i \in NonBlank(lines) : GapOf(lines, i) = g - 1 /\ TrimSpace(lines[i]) = Dashes

Gaps(lines) == 0..Cardinality(NonBlank(lines))

NonBlankLines(lines) == SelectSeq(lines, LAMBDA l : ~IsBlank(l))

\* every run of two or more blank lines directly follows a `---` line
LongRunsOnlyAfterDashes(lines) ==
    \A g \in Gaps(lines) : GapLen(lines, g) >= 2 => AfterDashes(lines, g)

InputLines == Split(original, "\n")

----------------------------------------------------------------------------
(* Claims about processEmptyLines *)

\* C1 (as stated): processEmptyLines is idempotent: applying it a second time
\* returns the text the first application returned.
C1_Idempotent == passes = 2 => content = previous

\* C1 (amended): a second application changes nothing when every run of two or
\* more blank lines of the input directly follows a `---` line, and a third
\* application never changes anything.
C1_StableAfterTwo ==
    /\ (passes = 2 /\ LongRunsOnlyAfterDashes(InputLines)) => content = previous
    /\ passes = 3 => content = previous

\* C1 witness: a text with a run of two blank lines has been processed three
\* times; the second application still changed it.
C1_Witness ==
    /\ passes = 3
    /\ ~LongRunsOnlyAfterDashes(InputLines)
    /\ content = previous
    /\ content # processEmptyLines(original)

\* C2 (as stated): every run of K >= 2 blank lines becomes exactly one blank line,
\* and every run of exactly one blank line that does not directly follow a `---`
\* line becomes none.
C2_BlankRunCollapsing ==
    passes = 1 =>
        \A g \in Gaps(InputLines) :
            /\ GapLen(InputLines, g) >= 2 => GapLen(resultLines, g) = 1
            /\ (GapLen(InputLines, g) = 1 /\ ~AfterDashes(InputLines, g))
                   => GapLen(resultLines, g) = 0

\* C3: a run of exactly one blank line directly after a line trimming to `---`
\* is kept as exactly one blank line at that position, the non-blank lines
\* around it unchanged.
C3_SeparatorKept ==
    passes = 1 =>
        /\ NonBlankLines(resultLines) = NonBlankLines(InputLines)
        /\ \A g \in Gaps(InputLines) :
               (GapLen(InputLines, g) = 1 /\ AfterDashes(InputLines, g))
                   => GapLen(resultLines, g) = 1

\* C3 witness: a frontmatter delimiter, one blank line, then text, processed once.
C3_Witness ==
    /\ passes = 1
    /\ \E g \in Gaps(InputLines) :
           /\ GapLen(InputLines, g) = 1
           /\ AfterDashes(InputLines, g)
           /\ GapLen(resultLines, g) = 1
           /\ g < Cardinality(NonBlank(InputLines))

----------------------------------------------------------------------------
(* Specification SpecLinks: convertMarkdownLinksToPlainText applied to every *)
(* text made of a few pieces                                                *)

\* single characters, a bracketed word, a parenthesised word, and links with
\* and without link text and URL
PieceChoices ==
    { <<"a">>, <<"[">>, <<"]">>, <<"(">>,
      <<"[", "a", "]">>, <<"(", "a", ")">>,
      <<"[", "a", "]", "(", "u", ")">>,
      <<"[", "]", "(", "u", ")">>,
      <<"[", "a", "]", "(", ")">> }

RECURSIVE Concat(_)
Concat(seqs) == IF seqs = <<>> THEN <<>> ELSE Head(seqs) \o Concat(Tail(seqs))

PieceTexts ==
    UNION { { Concat(ps) : ps \in [1..n -> PieceChoices] } : n \in 0..MaxPieces }

InitLinks ==
    /\ ImageIdle
    /\ BatchIdle
    /\ PageIdle
    /\ LinesIdle
    /\ FmIdle
    /\ DescIdle
    /\ linkText \in PieceTexts
    /\ linkPlain = <<>>
    /\ linkPc = "call"

ConvertMarkdownLinksToPlainText ==
    /\ linkPc = "call"
    /\ linkPlain' = convertMarkdownLinksToPlainText(linkText)
    /\ linkPc' = "return"
    /\ UNCHANGED <<linkText, linesVars, fmVars, descVars, pageVars, batchVars, imageVars>>

NextLinks == ConvertMarkdownLinksToPlainText

SpecLinks == InitLinks /\ [][NextLinks]_vars

----------------------------------------------------------------------------
(* Markdown links of a text, described by position and not by the scan *)

\* the first position at or after `from` that holds c, 0 when there is none
FirstAt(s, from, c) ==
    LET S == { p \in from..Len(s) : s[p] = c }
    IN  IF S = {} THEN 0 ELSE CHOOSE p \in S : \A q \in S : p <= q

\* The position of the closing `)` of the occurrence of
\* `[` non-`]` (min or more) `]` `(` non-`)` (min or more) `)` that starts at
\* position i, 0 when none starts there.
OccurrenceEnd(s, i, min) ==
    IF s[i] # "[" THEN 0
    ELSE LET j == FirstAt(s, i + 1, "]")
         IN  IF j = 0 \/ j - i - 1 < min \/ j = Len(s) THEN 0
             ELSE IF s[j + 1] # "(" THEN 0
             ELSE LET k == FirstAt(s, j + 2, ")")
                  IN  IF k = 0 \/ k - j - 2 < min THEN 0 ELSE k

\* The occurrences that are replaced: taken from left to right, an occurrence
\* counts unless an earlier replaced occurrence reaches into it.
Replaced(s, min) ==
    LET sel[i \in 1..Len(s)] ==
            /\ OccurrenceEnd(s, i, min) # 0
            /\ \A h \in 1..(i - 1) : sel[h] => OccurrenceEnd(s, h, min) < i
    IN  { i \in 1..Len(s) : sel[i] }

\* the positions of s that survive: those outside every replaced occurrence
\* and those of a replaced occurrence's link text
Kept(s, min) ==
    { p \in 1..Len(s) :
        \/ \A i \in Replaced(s, min) : p < i \/ p > OccurrenceEnd(s, i, min)
        \/ \E i \in Replaced(s, min) : i < p /\ p < FirstAt(s, i + 1, "]") }

\* s restricted to the positions of P, in order
Restrict(s, P) ==
    [ n \in 1..Cardinality(P) |->
        s[CHOOSE p \in P : Cardinality({ q \in P : q < p }) = n - 1] ]

\* s with every replaced occurrence reduced to its link text
LinksReplaced(s, min) == Restrict(s, Kept(s, min))

----------------------------------------------------------------------------
(* Claims about convertMarkdownLinksToPlainText *)

\* C6 (as stated): every occurrence of `[`, zero or more non-`]`, `]`, `(`, zero
\* or more non-`)`, `)` is replaced by its link text, empty link text and empty
\* URL included.
C6_EveryLinkReplaced ==
    linkPc = "return" => linkPlain = LinksReplaced(linkText, 0)

\* C6 (amended): every occurrence, taken from left to right without overlap, of
\* `[`, one or more non-`]`, `]`, `(`, one or more non-`)`, `)` is replaced by its
\* link text; an occurrence with empty link text or empty URL is left as it is.
C6_NonEmptyLinksReplaced ==
    linkPc = "return" => linkPlain = LinksReplaced(linkText, 1)

\* C6 witness: a text with two links, both replaced, and one with a link whose
\* URL is empty, which stays.
C6_Witness ==
    /\ linkPc = "return"
    /\ Cardinality(Replaced(linkText, 1)) = 2
    /\ Replaced(linkText, 0) # Replaced(linkText, 1)
    /\ Len(linkPlain) < Len(linkText)

\* C7: a text with no `[text]` directly followed by `(url)` is returned
\* unchanged: `[text]` alone and `(text)` alone are not links.
C7_NonLinksUntouched ==
    (linkPc = "return" /\ \A i \in 1..Len(linkText) : OccurrenceEnd(linkText, i, 0) = 0)
        => linkPlain = linkText

\* C7 witness: a text with a bracketed word and a parenthesised word that form
\* no link has been converted.
C7_Witness ==
    /\ linkPc = "return"
    /\ \A i \in 1..Len(linkText) : OccurrenceEnd(linkText, i, 0) = 0
    /\ \E i, j \in 1..Len(linkText) :
           /\ i + 2 <= Len(linkText) /\ j + 2 <= Len(linkText)
           /\ SubSeq(linkText, i, i + 2) = <<"[", "a", "]">>
           /\ SubSeq(linkText, j, j + 2) = <<"(", "a", ")">>
    /\ linkPlain = linkText

----------------------------------------------------------------------------
(* Specification SpecFrontmatter: generateFrontmatterYAML applied to every   *)
(* combination of empty and non-empty fields                               *)

\* an empty and a non-empty value for a string field; the non-empty title may
\* itself look like a `key: value` pair
FieldValues == { <<>>, <<"v">> }
TitleValues == { <<>>, <<"T">>, <<"i", "d", ":", " ", "x">> }
TagNames == { <<"x">>, <<"y">> }
TagLists == UNION { [1..n -> TagNames] : n \in 0..MaxTags }

Frontmatters ==
    [ ID : FieldValues, Title : TitleValues, Description : FieldValues,
      PublishedAt : FieldValues, UpdatedAt : FieldValues, Date : FieldValues,
      Tags : TagLists, Draft : BOOLEAN, Weather : FieldValues ]

InitFrontmatter ==
    /\ ImageIdle
    /\ BatchIdle
    /\ PageIdle
    /\ LinesIdle
    /\ LinkIdle
    /\ DescIdle
    /\ frontmatter \in Frontmatters
    /\ frontmatterYAML = <<>>
    /\ fmPc = "call"

GenerateFrontmatterYAML ==
    /\ fmPc = "call"
    /\ frontmatterYAML' = generateFrontmatterYAML(frontmatter)
    /\ fmPc' = "return"
    /\ UNCHANGED <<frontmatter, linesVars, linkVars, descVars, pageVars, batchVars, imageVars>>

NextFrontmatter == GenerateFrontmatterYAML

SpecFrontmatter == InitFrontmatter /\ [][NextFrontmatter]_vars

----------------------------------------------------------------------------
(* The lines of a frontmatter block, read back from the text *)

\* the lines of a text that ends with a newline
LinesOf(text) ==
    LET pieces == Split(text, "\n") IN SubSeq(pieces, 1, Len(pieces) - 1)

\* the key of a line: what stands before its first `:`
KeyOf(line) ==
    LET c == FirstAt(line, 1, ":")
    IN  IF c = 0 THEN line ELSE SubSeq(line, 1, c - 1)

\* what stands after the first `: ` of a line
ValueOf(line) ==
    LET c == FirstAt(line, 1, ":")
    IN  IF c = 0 THEN <<>> ELSE SubSeq(line, c + 2, Len(line))

KeysOf(text) ==
    LET ls == LinesOf(text) IN [ n \in 1..Len(ls) |-> KeyOf(ls[n]) ]

\* the declared order of the keys
KeyOrder ==
    << KeyID, KeyTitle, KeyDescription, KeyPublishedAt, KeyDate, KeyTags,
       KeyDraft, KeyWeather >>

KeyIndex(key) ==
    IF \E n \in 1..Len(KeyOrder) : KeyOrder[n] = key
    THEN CHOOSE n \in 1..Len(KeyOrder) : KeyOrder[n] = key
    ELSE 0

\* the lines, among ls, that carry the key
LinesWithKey(ls, key) == { n \in 1..Len(ls) : KeyOf(ls[n]) = key }

HasLine(text, key) == LinesWithKey(LinesOf(text), key) # {}

\* elems joined by a separator of any length
RECURSIVE JoinWith(_, _)
JoinWith(elems, sep) ==
    IF elems = <<>> THEN <<>>
    ELSE IF Len(elems) = 1 THEN elems[1]
    ELSE elems[1] \o sep \o JoinWith(Tail(elems), sep)

Quoted(tags) == [ n \in 1..Len(tags) |-> <<"\"">> \o tags[n] \o <<"\"">> ]

\* the value a field's line must carry
ExpectedValue(fm, key) ==
    CASE key = KeyID -> fm.ID
      [] key = KeyTitle -> fm.Title
      [] key = KeyDescription -> fm.Description
      [] key = KeyPublishedAt -> fm.PublishedAt
      [] key = KeyDate -> fm.Date
      [] key = KeyTags -> <<"[">> \o JoinWith(Quoted(fm.Tags), <<",", " ">>) \o <<"]">>
      [] key = KeyDraft -> True
      [] key = KeyWeather -> fm.Weather

\* the field is present: a non-empty string, a non-empty list, a true flag
Populated(fm, key) ==
    CASE key = KeyID -> fm.ID # <<>>
      [] key = KeyTitle -> fm.Title # <<>>
      [] key = KeyDescription -> fm.Description # <<>>
      [] key = KeyPublishedAt -> fm.PublishedAt # <<>>
      [] key = KeyDate -> fm.Date # <<>>
      [] key = KeyTags -> fm.Tags # <<>>
      [] key = KeyDraft -> fm.Draft
      [] key = KeyWeather -> fm.Weather # <<>>

\* the field's line is in the text, once, as `key: value`
EmitsLine(text, fm, key) ==
    LET ls == LinesOf(text)
        at == LinesWithKey(ls, key)
    IN  /\ Cardinality(at) = 1
        /\ \A n \in at : ValueOf(ls[n]) = ExpectedValue(fm, key)

Keys == { KeyOrder[n] : n \in 1..Len(KeyOrder) }

----------------------------------------------------------------------------
(* Claims about generateFrontmatterYAML *)

C10_LineIffPopulated ==
    fmPc = "return" =>
        \A key \in Keys :
            IF Populated(frontmatter, key)
            THEN EmitsLine(frontmatterYAML, frontmatter, key)
            ELSE ~HasLine(frontmatterYAML, key)

\* C10 (amended): the same for id, description, publishedAt, date, tags, draft
\* and weather; the title line is always emitted, also for an empty title.
C10_LineIffPopulatedButTitle ==
    fmPc = "return" =>
        /\ EmitsLine(frontmatterYAML, frontmatter, KeyTitle)
        /\ \A key \in Keys \ {KeyTitle} :
               IF Populated(frontmatter, key)
               THEN EmitsLine(frontmatterYAML, frontmatter, key)
               ELSE ~HasLine(frontmatterYAML, key)

\* C10 witness: a Frontmatter with an empty title, tags and a true draft flag
\* has been serialized; its title line is there, its description line is not.
C10_Witness ==
    /\ fmPc = "return"
    /\ frontmatter.Title = <<>>
    /\ frontmatter.Description = <<>>
    /\ Len(frontmatter.Tags) = 2
    /\ frontmatter.Draft
    /\ HasLine(frontmatterYAML, KeyTitle)
    /\ HasLine(frontmatterYAML, KeyTags)
    /\ ~HasLine(frontmatterYAML, KeyDescription)

----------------------------------------------------------------------------
(* Specification SpecDescription: processPage applied to blog pages whose   *)
(* body is one paragraph, short and long                                   *)

PlainSpan(text) == [ PlainText |-> text, Href |-> <<>> ]
LinkSpan(text, href) == [ PlainText |-> text, Href |-> href ]

\* the spans a paragraph may start with: plain text, a newline inside the
\* text, a multi-byte character, a link, a link whose text starts with a space
SpanChoices ==
    { PlainSpan(<<"a", " ">>), PlainSpan(<<"b", "\n", "\n">>), PlainSpan(<<"U3042">>),
      LinkSpan(<<"c">>, <<"u">>), LinkSpan(<<" ", "c">>, <<"u">>) }

\* the units the long span repeats: one byte, three bytes, with a space, with
\* a run of two different whitespace characters
UnitChoices ==
    { <<"a">>, <<"U3042">>, <<"a", " ">>, <<"U3042", "\t", " ">> }

Repeat(unit, n) == [ i \in 1..(n * Len(unit)) |-> unit[((i - 1) % Len(unit)) + 1] ]

ParagraphBlock(spans) ==
    [ Type |-> "paragraph", RichText |-> spans, Checked |-> FALSE, Language |-> <<>>,
      ImageType |-> "", URL |-> <<>> ]

TitleProperty(text) ==
    [ Type |-> "title", Title |-> <<PlainSpan(text)>>, MultiSelect |-> <<>>,
      RichText |-> <<>>, Printed |-> <<>> ]

\* no image was downloaded
NoDownload == [ err |-> TRUE, filename |-> <<>> ]

DescriptionPages ==
    { [ ID |-> <<"p", "1">>,
        Properties |-> [ n \in {"title"} |-> TitleProperty(<<"T">>) ],
        CreatedTime |-> [year |-> 2023, month |-> 1, day |-> 1],
        Children |-> << ParagraphBlock(spans \o <<PlainSpan(Repeat(unit, k))>>) >> ] :
      spans \in UNION { [1..n -> SpanChoices] : n \in 0..MaxSpans },
      unit \in UnitChoices,
      k \in 0..MaxRepeat }

InitDescription ==
    /\ ImageIdle
    /\ BatchIdle
    /\ PageIdle
    /\ LinesIdle
    /\ LinkIdle
    /\ FmIdle
    /\ descPage \in DescriptionPages
    /\ descResult = Skipped
    /\ descPc = "call"

\* processPage for the blog database, Block.GetChildren and the write
\* succeeding
ProcessBlogPage ==
    /\ descPc = "call"
    /\ descResult' = processPage(descPage, "blog", FALSE, <<NoDownload>>, FALSE, FALSE)
    /\ descPc' = "return"
    /\ UNCHANGED <<descPage, linesVars, linkVars, fmVars, pageVars, batchVars, imageVars>>

NextDescription == ProcessBlogPage

SpecDescription == InitDescription /\ [][NextDescription]_vars

----------------------------------------------------------------------------
(* The whitespace-normalized form of a text, described by its words *)

\* Every whitespace run between two words one space, none at either end: a
\* character stays when it is no whitespace; a whitespace character stays, as
\* a space, when it directly follows a word and a word comes after it.
NormalForm(s) ==
    LET words == { i \in 1..Len(s) : ~IsSpace(s[i]) }
        stays(i) ==
            \/ i \in words
            \/ /\ (i - 1) \in words
               /\ \E j \in words : j > i
        positions == SelectSeq([ i \in 1..Len(s) |-> i ], stays)
    IN  [ n \in 1..Len(positions) |->
            IF IsSpace(s[positions[n]]) THEN " " ELSE s[positions[n]] ]

IsPrefix(p, s) == Len(p) <= Len(s) /\ SubSeq(s, 1, Len(p)) = p

----------------------------------------------------------------------------
(* Claims about the blog description *)

\* C4 (as stated): with T the body after link stripping and then whitespace
\* normalization, the description of a blog entry with a non-empty body is the
\* first 70 code points of T followed by `...` when T has more than 70, and T
\* itself otherwise.
C4_DescriptionFromBody ==
    (descPc = "return" /\ descResult.pageContent # <<>>) =>
        LET T == NormalForm(convertMarkdownLinksToPlainText(descResult.pageContent))
        IN  descResult.frontmatter.Description =
                IF Len(T) > DescriptionLimit
                THEN SubSeq(T, 1, DescriptionLimit) \o Ellipsis
                ELSE T

----------------------------------------------------------------------------
(* Specification Spec: main, for every configuration loadConfig accepts and  *)
(* every pair of small databases                                            *)

\* the page size of the query; Database.Query returns at most so many results
PageSize == 100

TextProperty(text) ==
    [ Type |-> "rich_text", Title |-> <<>>, MultiSelect |-> <<>>,
      RichText |-> <<PlainSpan(text)>>, Printed |-> <<>> ]

MultiSelectProperty(names) ==
    [ Type |-> "multi_select", Title |-> <<>>, MultiSelect |-> names,
      RichText |-> <<>>, Printed |-> <<>> ]

ImageBlock(url) ==
    [ Type |-> "image", RichText |-> <<>>, Checked |-> FALSE, Language |-> <<>>,
      ImageType |-> "external", URL |-> url ]

FirstPostTitle == <<"F", "i", "r", "s", "t", " ", "P", "o", "s", "t">>
HelloWorld == <<"H", "e", "l", "l", "o", " ", "w", "o", "r", "l", "d", ".">>

\* title "First Post", no tags, created 2023-01-01, one paragraph
FirstPost ==
    [ ID |-> <<"p", "1">>,
      Properties |-> [ n \in {"title"} |-> TitleProperty(FirstPostTitle) ],
      CreatedTime |-> [year |-> 2023, month |-> 1, day |-> 1],
      Children |-> <<ParagraphBlock(<<PlainSpan(HelloWorld)>>)>> ]

\* no title property at all
Untitled ==
    [ ID |-> <<"p", "2">>,
      Properties |-> [ n \in {"weather"} |-> TextProperty(<<"R", "a", "i", "n">>) ],
      CreatedTime |-> [year |-> 2024, month |-> 12, day |-> 31],
      Children |-> << ParagraphBlock(<<PlainSpan(<<"x">>)>>) >> ]

\* the title under "Name", with a character no filename may hold; tags, a
\* weather and an image
Day ==
    [ ID |-> <<"p", "3">>,
      Properties |->
          [ n \in {"Name", "tags", "weather"} |->
              IF n = "Name" THEN TitleProperty(<<"D", "a", "y", "/", "1">>)
              ELSE IF n = "tags" THEN MultiSelectProperty(<< <<"t">> >>)
              ELSE TextProperty(<<"S", "u", "n", "n", "y">>) ],
      CreatedTime |-> [year |-> 2024, month |-> 2, day |-> 9],
      Children |-> << ImageBlock(<<"h", ".", "p", "n", "g">>) >> ]

\* another page with the title "First Post"
SamePost ==
    [ ID |-> <<"p", "8">>,
      Properties |-> [ n \in {"title"} |-> TitleProperty(FirstPostTitle) ],
      CreatedTime |-> [year |-> 2023, month |-> 1, day |-> 1],
      Children |-> <<ParagraphBlock(<<PlainSpan(<<"A", "g", "a", "i", "n", ".">>)>>)>> ]

\* a row of a database: the page and its two checkboxes
Rows ==
    { [ page |-> FirstPost, published |-> FALSE, done |-> TRUE ],
      [ page |-> SamePost, published |-> FALSE, done |-> TRUE ],
      [ page |-> Untitled, published |-> FALSE, done |-> TRUE ],
      [ page |-> Day, published |-> FALSE, done |-> TRUE ],
      [ page |-> FirstPost, published |-> TRUE, done |-> TRUE ],
      [ page |-> Day, published |-> FALSE, done |-> FALSE ] }

RowLists(n) == UNION { [1..k -> Rows] : k \in 0..n }

\* what downloadImage may return: an error, or the name of the local file
DownloadChoices ==
    { NoDownload, [ err |-> FALSE, filename |-> <<"p", "3", "_", "h", ".", "p", "n", "g">> ] }

\* downloadImage is called for the image blocks that have a URL, and what it
\* returns is one of DownloadChoices; for any other block there is no download
DownloadsFor(blocks) ==
    { downloads \in [ 1..Len(blocks) -> DownloadChoices ] :
        \A i \in 1..Len(blocks) :
            (blocks[i].Type # "image" \/ imageURLOf(blocks[i]) = <<>>)
                => downloads[i] = NoDownload }

\* the configurations loadConfig returns
DatabaseTypes == {"blog", "diary", "all"}

\* the environment and the -type flag the process is started with; a missing
\* variable reads as ""
Environments ==
    [ NotionAPIToken : {"", "secret"},
      NotionBlogDatabaseID : {"", "b"},
      NotionDiaryDatabaseID : {"", "d"},
      type : DatabaseTypes \cup {"other"} ]

\* a validation that asks for the token only
validConfigTokenOnly(e) == e.NotionAPIToken # ""

\* the validation of loadConfig: TRUE when none of its os.Exit(1) is reached
validConfig(e) ==
    /\ e.NotionAPIToken # ""
    /\ CASE e.type = "blog" -> e.NotionBlogDatabaseID # ""
         [] e.type = "diary" -> e.NotionDiaryDatabaseID # ""
         [] e.type = "all" -> e.NotionBlogDatabaseID # "" /\ e.NotionDiaryDatabaseID # ""
         [] OTHER -> FALSE

Init ==
    /\ ImageIdle
    /\ LinesIdle
    /\ LinkIdle
    /\ FmIdle
    /\ DescIdle
    /\ PageIdle
    /\ env \in Environments
    /\ config = ZeroConfig
    /\ \E b \in RowLists(MaxPages), d \in RowLists(MaxPages) :
           /\ Len(b) + Len(d) <= MaxPages
           /\ databases = [ blog |-> b, diary |-> d ]
    /\ pc = "loadConfig"
    /\ todo = <<>>
    /\ dbConfig = ZeroConfig
    /\ pages = <<>>
    /\ cursor = 0
    /\ processed = <<>>
    /\ dirs = {}
    /\ files = <<>>
    /\ last = NoCall

\* loadConfig: the Config read from the environment, or os.Exit(1)
LoadConfig ==
    /\ pc = "loadConfig"
    /\ IF validConfig(env)
       THEN /\ config' = [ NotionAPIToken |-> env.NotionAPIToken,
                           NotionBlogDatabaseID |-> env.NotionBlogDatabaseID,
                           NotionDiaryDatabaseID |-> env.NotionDiaryDatabaseID,
                           DatabaseType |-> env.type ]
            /\ pc' = "main"
       ELSE /\ config' = config
            /\ pc' = "exited"
    /\ UNCHANGED <<env, databases, todo, dbConfig, pages, cursor, processed, dirs,
                   files, last, linesVars, linkVars, fmVars, descVars, pageVars, imageVars>>

\* the directories main creates, in the order of its os.MkdirAll calls
mainDirectories(DatabaseType) ==
    (IF DatabaseType \in {"all", "blog"} THEN <<"blog">> ELSE <<>>)
    \o (IF DatabaseType \in {"all", "diary"} THEN <<"diary">> ELSE <<>>)
    \o <<"images">>

\* main up to the first processDatabaseType: the first failing os.MkdirAll
\* ends the process with os.Exit(1); made is the number of calls that succeed
Main ==
    /\ pc = "main"
    /\ \E made \in 0..Len(mainDirectories(config.DatabaseType)) :
           /\ dirs' = dirs \cup
                  { mainDirectories(config.DatabaseType)[n] : n \in 1..made }
           /\ IF made < Len(mainDirectories(config.DatabaseType))
              THEN /\ pc' = "exited"
                   /\ todo' = todo
              ELSE /\ pc' = "fetch"
                   /\ todo' = IF config.DatabaseType = "all"
                              THEN <<"blog", "diary">>
                              ELSE <<config.DatabaseType>>
    /\ UNCHANGED <<env, config, databases, dbConfig, pages, cursor, processed, files,
                   last, linesVars, linkVars, fmVars, descVars, pageVars, imageVars>>

\* a query that filters on `done` alone
queryDatabaseDoneOnly(rows) ==
    LET matching == SelectSeq(rows, LAMBDA row : row.done = TRUE)
    IN  [ n \in 1..(IF Len(matching) < PageSize THEN Len(matching) ELSE PageSize) |->
            matching[n].page ]

\* what Database.Query returns for the filter `published` does not equal true
\* and `done` equals true: the first PageSize matching rows
queryDatabase(rows) ==
    LET matching == SelectSeq(rows, LAMBDA row : row.published # TRUE /\ row.done = TRUE)
    IN  [ n \in 1..(IF Len(matching) < PageSize THEN Len(matching) ELSE PageSize) |->
            matching[n].page ]

\* processDatabaseType up to its loop: the copy of the config, fetchDatabase.
\* A failing Database.Get or Database.Query ends the process.
FetchDatabase ==
    /\ pc = "fetch"
    /\ todo # <<>>
    /\ dbConfig' = [ config EXCEPT !.DatabaseType = Head(todo) ]
    /\ \E getErr \in BOOLEAN, queryErr \in BOOLEAN :
           IF getErr \/ queryErr
           THEN /\ pc' = "exited"
                /\ UNCHANGED <<pages, cursor, processed>>
           ELSE /\ pc' = "pages"
                /\ pages' = queryDatabase(IF Head(todo) = "blog"
                                          THEN databases.blog
                                          ELSE databases.diary)
                /\ cursor' = 1
                /\ processed' = <<>>
    /\ UNCHANGED <<env, config, databases, todo, dirs, files, last,
                   linesVars, linkVars, fmVars, descVars, pageVars, imageVars>>

\* outputPath: filepath.Join(outputDir, filename), written as the pair
pathOf(result) == <<result.dir, result.filename>>

\* os.WriteFile(outputPath, content): the file holds content, whatever it held
writeFile(fs, path, data) ==
    [ p \in (DOMAIN fs) \cup {path} |-> IF p = path THEN data ELSE fs[p] ]

\* what a failed os.WriteFile leaves at the path: the file as it was (it could
\* not be opened), or the file truncated and holding a beginning of the data
\* (the write failed); the beginnings taken are the empty one and the first
\* line of the document
WriteFailureOutcomes == {"untouched", "empty", "firstLine"}

\* a file system in which the output file is created before processPage has
\* looked at the title
filesAfterEarlyCreate(fs, result, left) ==
    IF result.written
    THEN writeFile(fs, pathOf(result), result.content)
    ELSE writeFile(fs, pathOf(result), <<>>)

\* the files after processPage has returned result: the one os.WriteFile of
\* processPage, with the whole content, when it was reached
filesAfter(fs, result, left) ==
    IF result.written
    THEN writeFile(fs, pathOf(result), result.content)
    ELSE IF result.writeFailed /\ left = "empty"
    THEN writeFile(fs, pathOf(result), <<>>)
    ELSE IF result.writeFailed /\ left = "firstLine"
    THEN writeFile(fs, pathOf(result), FrontmatterOpen)
    ELSE fs

\* the loop of processDatabaseType, were it to end at the first page whose
\* file is not written
ProcessPageAbortOnFailure ==
    /\ pc = "pages"
    /\ cursor <= Len(pages)
    /\ \E fetchErr \in BOOLEAN, mkdirErr \in BOOLEAN, writeErr \in BOOLEAN,
          downloads \in [ 1..Len(pages[cursor].Children) -> DownloadChoices ] :
           last' = [ called |-> TRUE,
                     page |-> pages[cursor],
                     DatabaseType |-> dbConfig.DatabaseType,
                     result |-> processPage(pages[cursor], dbConfig.DatabaseType,
                                            fetchErr, downloads, mkdirErr, writeErr) ]
    /\ \E left \in WriteFailureOutcomes :
           files' = filesAfter(files, last'.result, left)
    /\ dirs' = IF last'.result.dirMade THEN dirs \cup {last'.result.dir} ELSE dirs
    /\ processed' = Append(processed, pages[cursor])
    /\ cursor' = IF last'.result.written THEN cursor + 1 ELSE Len(pages) + 1
    /\ UNCHANGED <<env, config, databases, pc, todo, dbConfig, pages,
                   linesVars, linkVars, fmVars, descVars, pageVars, imageVars>>

\* One turn of the loop of processDatabaseType: the log line, and processPage
\* for the page at the cursor.  Block.GetChildren, downloadImage, os.MkdirAll
\* and os.WriteFile may each fail; processPage returns without a write at a
\* missing title, at a failed MkdirAll and at a failed WriteFile.
ProcessPage ==
    /\ pc = "pages"
    /\ cursor <= Len(pages)
    /\ \E fetchErr \in BOOLEAN, mkdirErr \in BOOLEAN, writeErr \in BOOLEAN,
          downloads \in [ 1..Len(pages[cursor].Children) -> DownloadChoices ] :
           last' = [ called |-> TRUE,
                     page |-> pages[cursor],
                     DatabaseType |-> dbConfig.DatabaseType,
                     result |-> processPage(pages[cursor], dbConfig.DatabaseType,
                                            fetchErr, downloads, mkdirErr, writeErr) ]
    /\ \E left \in WriteFailureOutcomes :
           files' = filesAfter(files, last'.result, left)
    /\ dirs' = IF last'.result.dirMade THEN dirs \cup {last'.result.dir} ELSE dirs
    /\ processed' = Append(processed, pages[cursor])
    /\ cursor' = cursor + 1
    /\ UNCHANGED <<env, config, databases, pc, todo, dbConfig, pages,
                   linesVars, linkVars, fmVars, descVars, pageVars, imageVars>>

\* the end of processDatabaseType: main goes on with the next database type
\* or ends
CompleteDatabaseType ==
    /\ pc = "pages"
    /\ cursor > Len(pages)
    /\ todo' = Tail(todo)
    /\ pc' = IF Tail(todo) = <<>> THEN "completed" ELSE "fetch"
    /\ UNCHANGED <<env, config, databases, dbConfig, pages, cursor, processed, dirs,
                   files, last, linesVars, linkVars, fmVars, descVars, pageVars, imageVars>>

Next ==
    \/ LoadConfig
    \/ Main
    \/ FetchDatabase
    \/ ProcessPage
    \/ CompleteDatabaseType

Spec == Init /\ [][Next]_vars

\* the position of main: where it is, which page of the list is next, which
\* database types are still to do; every step of Next changes it
control == <<pc, cursor, todo>>

\* the loop of processDatabaseType goes on to the next page of its list:
\* ProcessPage as seen on the position alone
NextPageOfLoop ==
    /\ pc = "pages"
    /\ cursor <= Len(pages)
    /\ cursor' = cursor + 1
    /\ UNCHANGED <<pc, todo>>

\* the process is sequential and runs on until it ends: no step of main that
\* can be taken is put off for ever
SpecLive ==
    /\ Spec
    /\ WF_control(LoadConfig)
    /\ WF_control(Main)
    /\ WF_control(FetchDatabase)
    /\ WF_control(NextPageOfLoop)
    /\ WF_control(CompleteDatabaseType)

----------------------------------------------------------------------------
(* Claims about the written file *)

\* the last call of processPage was for the entry of the end-to-end scenario:
\* a blog entry titled "First Post", without tags, created 2023-01-01, whose
\* blocks were fetched and are one paragraph "Hello world."; its file is written
FirstPostWritten ==
    /\ last.called
    /\ last.DatabaseType = "blog"
    /\ pageTitle(last.page) = FirstPostTitle
    /\ pageTags(last.page) = <<>>
    /\ last.page.CreatedTime = [year |-> 2023, month |-> 1, day |-> 1]
    /\ last.page.Children = <<ParagraphBlock(<<PlainSpan(HelloWorld)>>)>>
    /\ last.result.fetched
    /\ last.result.written

FirstPostPath == <<"blog", <<"F", "i", "r", "s", "t", " ", "P", "o", "s", "t", ".", "m", "d">>>>

\* the first lines of the file as the scenario gives them
FileAsStated(id) ==
    <<"-", "-", "-", "\n", "i", "d", ":", " ">> \o id \o
    << "\n", "t", "i", "t", "l", "e", ":", " ", "F", "i", "r", "s", "t",
       " ", "P", "o", "s", "t", "\n", "d", "a", "t", "e", ":", " ", "2",
       "0", "2", "3", "-", "0", "1", "-", "0", "1", "\n", "-", "-", "-",
       "\n", "\n", "H", "e", "l", "l", "o", " ", "w", "o", "r", "l", "d",
       ".", " ", " ", "\n", "\n" >>

\* the file with the description line, and one newline after the paragraph
FileWithDescription(id) ==
    <<"-", "-", "-", "\n", "i", "d", ":", " ">> \o id \o
    << "\n", "t", "i", "t", "l", "e", ":", " ", "F", "i", "r", "s", "t",
       " ", "P", "o", "s", "t", "\n", "d", "e", "s", "c", "r", "i", "p",
       "t", "i", "o", "n", ":", " ", "H", "e", "l", "l", "o", " ", "w", "o",
       "r", "l", "d", ".", "\n", "d", "a", "t", "e", ":", " ", "2", "0",
       "2", "3", "-", "0", "1", "-", "0", "1", "\n", "-", "-", "-", "\n",
       "\n", "H", "e", "l", "l", "o", " ", "w", "o", "r", "l", "d", ".",
       " ", " ", "\n" >>

----------------------------------------------------------------------------
(* Specification SpecPage: processPage applied to one page, for pages that   *)
(* differ in their title properties, in their other properties and in their *)
(* blocks, with every outcome of the calls it makes                         *)

TitleAliases == {"title", "Title", "Name", "titile"}

\* the title each alias holds when it holds one; together they hold every
\* character generateFilename replaces
AliasText(name) ==
    CASE name = "title" -> <<"a", "/", "\\", ":">>
      [] name = "Title" -> <<"b", "*", "?", "\"">>
      [] name = "Name" -> <<"U3042", " ", "<", ">", "|">>
      [] OTHER -> <<"t", ".", "x">>

\* a title property the page has no title in: len(tp.Title) = 0
EmptyTitleProperty ==
    [ Type |-> "title", Title |-> <<>>, MultiSelect |-> <<>>,
      RichText |-> <<>>, Printed |-> <<>> ]

\* what a page may hold under an alias: nothing, a title, an empty title, a
\* property that is no title property
AliasKinds == {"absent", "text", "empty", "other"}

AliasProperty(name, kind) ==
    CASE kind = "text" -> TitleProperty(AliasText(name))
      [] kind = "empty" -> EmptyTitleProperty
      [] OTHER -> TextProperty(AliasText(name))

TitlePages ==
    { [ ID |-> <<"p", "4">>,
        Properties |-> [ n \in { a \in TitleAliases : kinds[a] # "absent" } |->
                           AliasProperty(n, kinds[n]) ],
        CreatedTime |-> [year |-> 2024, month |-> 2, day |-> 9],
        Children |-> <<ParagraphBlock(<<PlainSpan(<<"x">>)>>)>> ] :
      kinds \in [ TitleAliases -> AliasKinds ] }

\* a checkbox property
CheckboxProperty(checked) ==
    [ Type |-> "checkbox", Title |-> <<>>, MultiSelect |-> <<>>,
      RichText |-> <<>>, Printed |-> <<>>, Checkbox |-> checked ]

DescriptionText == <<"d", " ", "[", "l", "]", "(", "u", ")">>
WeatherText == <<"S", "u", "n", "n", "y", " ", "[", "s", "]", "(", "u", ")">>

\* the properties a page may have besides its title: a draft checkbox, a
\* description, a weather
OptionalProperties ==
    { [ n \in names |->
          CASE n = "draft" -> CheckboxProperty(checked)
            [] n = "description" -> TextProperty(DescriptionText)
            [] OTHER -> TextProperty(WeatherText) ] :
      names \in SUBSET {"draft", "description", "weather"},
      checked \in BOOLEAN }

PropertyPages ==
    { [ ID |-> <<"p", "5">>,
        Properties |-> [ n \in (DOMAIN props) \cup {"title"} |->
                           IF n = "title" THEN TitleProperty(<<"T">>) ELSE props[n] ],
        CreatedTime |-> [year |-> 2024, month |-> 2, day |-> 9],
        Children |-> <<ParagraphBlock(<<PlainSpan(<<"x">>)>>)>> ] :
      props \in OptionalProperties }

FileImageBlock(url) ==
    [ Type |-> "image", RichText |-> <<>>, Checked |-> FALSE, Language |-> <<>>,
      ImageType |-> "file", URL |-> url ]

\* an image block whose Image.Type is neither "external" nor "file"
EmptyImageBlock ==
    [ Type |-> "image", RichText |-> <<>>, Checked |-> FALSE, Language |-> <<>>,
      ImageType |-> "", URL |-> <<>> ]

\* an item of a numbered list
NumberedListItemBlock(spans) ==
    [ Type |-> "numbered_list_item", RichText |-> spans, Checked |-> FALSE,
      Language |-> <<>>, ImageType |-> "", URL |-> <<>> ]

BlockChoices ==
    { ParagraphBlock(<<PlainSpan(<<"x">>)>>),
      NumberedListItemBlock(<<PlainSpan(<<"n">>)>>),
      ImageBlock(<<"h", ".", "p", "n", "g">>),
      FileImageBlock(<<"f", ".", "j", "p", "g">>),
      EmptyImageBlock }

BlockPages ==
    { [ ID |-> <<"p", "6">>,
        Properties |-> [ n \in {"title"} |-> TitleProperty(<<"T">>) ],
        CreatedTime |-> [year |-> 2024, month |-> 2, day |-> 9],
        Children |-> blocks ] :
      blocks \in UNION { [1..k -> BlockChoices] : k \in 0..MaxBlocks } }

\* pages of one paragraph, of up to MaxRichText spans
RichTextPages ==
    { [ ID |-> <<"p", "7">>,
        Properties |-> [ n \in {"title"} |-> TitleProperty(<<"T">>) ],
        CreatedTime |-> [year |-> 2024, month |-> 2, day |-> 9],
        Children |-> <<ParagraphBlock(spans)>> ] :
      spans \in UNION { [1..k -> SpanChoices] : k \in 0..MaxRichText } }

\* a code block: its text is one span, its language a word
CodeBlock(text, language) ==
    [ Type |-> "code", RichText |-> <<PlainSpan(text)>>, Checked |-> FALSE,
      Language |-> language, ImageType |-> "", URL |-> <<>> ]

\* the texts of a code block: two lines with no, one and two blank lines
\* between them
CodeTexts ==
    { <<"a", "\n", "b">>, <<"a", "\n", "\n", "b">>, <<"a", "\n", "\n", "\n", "b">> }

\* pages of one code block
CodePages ==
    { [ ID |-> <<"p", "9">>,
        Properties |-> [ n \in {"title"} |-> TitleProperty(<<"T">>) ],
        CreatedTime |-> [year |-> 2024, month |-> 2, day |-> 9],
        Children |-> <<CodeBlock(text, <<"g", "o">>)>> ] :
      text \in CodeTexts }

\* the outcomes of os.MkdirAll and os.WriteFile: WriteFile is reached only
\* when MkdirAll succeeded
WriteOutcomes ==
    { [ mkdirErr |-> FALSE, writeErr |-> FALSE ],
      [ mkdirErr |-> TRUE, writeErr |-> FALSE ],
      [ mkdirErr |-> FALSE, writeErr |-> TRUE ] }

InitPage ==
    /\ ImageIdle
    /\ BatchIdle
    /\ LinesIdle
    /\ LinkIdle
    /\ FmIdle
    /\ DescIdle
    /\ \E page \in TitlePages \cup PropertyPages \cup BlockPages \cup RichTextPages
                     \cup CodePages,
          DatabaseType \in {"blog", "diary"},
          fetchErr \in BOOLEAN,
          outcome \in WriteOutcomes :
         \E downloads \in DownloadsFor(page.Children) :
           pgCall = [ page |-> page, DatabaseType |-> DatabaseType,
                      fetchErr |-> fetchErr, downloads |-> downloads,
                      mkdirErr |-> outcome.mkdirErr, writeErr |-> outcome.writeErr ]
    /\ pgResult = Skipped
    /\ pgPc = "call"

\* processPage(client, page, config)
CallProcessPage ==
    /\ pgPc = "call"
    /\ pgResult' = processPage(pgCall.page, pgCall.DatabaseType, pgCall.fetchErr,
                               pgCall.downloads, pgCall.mkdirErr, pgCall.writeErr)
    /\ pgPc' = "return"
    /\ UNCHANGED <<pgCall, linesVars, linkVars, fmVars, descVars, batchVars, imageVars>>

NextPage == CallProcessPage

SpecPage == InitPage /\ [][NextPage]_vars

----------------------------------------------------------------------------
(* Claims about the filename *)

\* the title with every character of / \ : * ? " < > | replaced by `_`
Sanitized(title) ==
    [ n \in 1..Len(title) |->
        IF title[n] \in {"/", "\\", ":", "*", "?", "\"", "<", ">", "|"}
        THEN "_" ELSE title[n] ]

\* the page has been processed and was not skipped: its title was resolved
Resolved == pgPc = "return" /\ ~pgResult.skipped

\* C11 (as stated): the filename of every entry whose title was resolved is
\* S.md for the blog and date_S.md for the diary, S being the title of the
\* frontmatter with the invalid characters replaced and date the creation date.
C11_FilenameFromTitle ==
    Resolved =>
        pgResult.filename =
            (IF pgCall.DatabaseType = "diary"
             THEN formatDate(pgCall.page.CreatedTime) \o <<"_">>
             ELSE <<>>)
            \o Sanitized(pgResult.frontmatter.Title) \o <<".", "m", "d">>

----------------------------------------------------------------------------
(* Claims about the batch *)

\* the documents processPage can produce for a page, whatever happened before
\* the call: one for every outcome of its own fetch and downloads
ownContents(page, DatabaseType) ==
    { processPage(page, DatabaseType, fetchErr, downloads, FALSE, FALSE).content :
        fetchErr \in BOOLEAN, downloads \in DownloadsFor(page.Children) }

\* C12: whatever fails for single entries, the entries of the fetched list are
\* handed to processPage one by one in list order (the log of the loop is
\* always the list up to the cursor), the loop is left only when the whole
\* list has been processed, the document written for an entry is one of the
\* documents of that entry alone, and the loop
\* over a fetched list always comes to its end (the next fetch, or completion
\* after the last database type).
C12_EveryEntryInOrder ==
    /\ [](pc = "pages" => processed = SubSeq(pages, 1, cursor - 1))
    /\ [][(pc = "pages" /\ pc' # "pages") => processed = pages]_vars
    /\ [](last.result.written =>
            /\ last.result.content \in ownContents(last.page, last.DatabaseType)
            /\ files[pathOf(last.result)] = last.result.content)
    /\ (pc = "pages") ~> (pc = "fetch" \/ pc = "completed")
    /\ (pc = "pages" /\ Len(todo) = 1) ~> (pc = "completed")

\* C12 witness: the run is complete, the first entry of the last list had no
\* title and was skipped, and the entry after it has been written.
C12_Witness ==
    /\ pc = "completed"
    /\ Len(processed) = 2
    /\ pageTitle(processed[1]) = <<>>
    /\ last.page = processed[2]
    /\ last.result.written
    /\ files[pathOf(last.result)] = last.result.content

\* no alias of the page holds a non-empty title
NoTitle(page) ==
    \A a \in TitleAliases :
        ~HasProperty(page, a) \/ titleOfProperty(page.Properties[a]) = <<>>

\* C13: a turn of the loop for an entry whose title resolves to nothing, or
\* that has no title under any alias, leaves every file and directory as it
\* was, makes no content fetch, writes nothing, and the loop stays on the
\* same list with the next entry as its next one.
C13_UntitledSkipped ==
    [][ ( /\ pc = "pages"
          /\ cursor <= Len(pages)
          /\ cursor' = cursor + 1
          /\ (pageTitle(pages[cursor]) = <<>> \/ NoTitle(pages[cursor])) )
        => /\ files' = files
           /\ dirs' = dirs
           /\ last'.page = pages[cursor]
           /\ last'.result.skipped
           /\ last'.result.fetchCalls = 0
           /\ ~last'.result.written
           /\ pc' = "pages"
           /\ pages' = pages ]_vars

\* C13 witness: the second entry of a list had no title and has just been
\* skipped, while the file of the entry before it is there.
C13_Witness ==
    /\ pc = "pages"
    /\ Len(processed) = 2
    /\ pageTitle(processed[1]) # <<>>
    /\ NoTitle(processed[2])
    /\ last.page = processed[2]
    /\ last.result.skipped
    /\ DOMAIN files # {}

\* the same page processed with its blocks fetched
asFetched(page, DatabaseType) ==
    processPage(page, DatabaseType, FALSE,
                CHOOSE d \in DownloadsFor(page.Children) : TRUE, FALSE, FALSE)

\* the frontmatter without the field that is derived from the body
WithoutDescription(fm) == [ fm EXCEPT !.Description = <<>> ]

\* C14: a turn of the loop for an entry with a title whose block fetch fails,
\* and whose directory and file can be written, writes the entry: the body is
\* the placeholder, the frontmatter and the filename are those of the same
\* page processed with its blocks fetched (the blog description being derived
\* from the body by the same rule), the file holds frontmatter and
\* placeholder, and the loop goes on with the next entry of the same list.
C14_PlaceholderOnFetchFailure ==
    [][ ( /\ pc = "pages"
          /\ cursor <= Len(pages)
          /\ cursor' = cursor + 1
          /\ pageTitle(pages[cursor]) # <<>>
          /\ ~last'.result.fetched
          /\ ~last'.result.mkdirFailed
          /\ ~last'.result.writeFailed )
        => /\ last'.result.written
           /\ last'.result.pageContent = Placeholder
           /\ WithoutDescription(last'.result.frontmatter) =
                  WithoutDescription(asFetched(pages[cursor], dbConfig.DatabaseType).frontmatter)
           /\ last'.result.frontmatter.Description =
                  (IF dbConfig.DatabaseType = "blog"
                   THEN blogDescription(Placeholder).Description ELSE <<>>)
           /\ last'.result.filename =
                  asFetched(pages[cursor], dbConfig.DatabaseType).filename
           /\ last'.result.content =
                  processEmptyLines(FrontmatterOpen
                      \o generateFrontmatterYAML(last'.result.frontmatter)
                      \o FrontmatterClose \o Placeholder)
           /\ files'[pathOf(last'.result)] = last'.result.content
           /\ pc' = "pages"
           /\ pages' = pages ]_vars

\* C14 witness: the block fetch of the first of two entries failed, the entry
\* was written with the placeholder as its body, and the entry after it has
\* been written too.
C14_Witness ==
    /\ Len(processed) = 2
    /\ last.page = processed[2]
    /\ last.result.written
    /\ \E path \in DOMAIN files :
           /\ path # pathOf(last.result)
           /\ files[path] =
                  processEmptyLines(FrontmatterOpen
                      \o generateFrontmatterYAML(
                             processPage(processed[1], last.DatabaseType, TRUE, <<>>,
                                         FALSE, FALSE).frontmatter)
                      \o FrontmatterClose \o Placeholder)

----------------------------------------------------------------------------
(* Claims about image blocks *)

\* `![Image](<url>)`, two spaces and a blank line
ImageFragment(url) ==
    <<"!", "[", "I", "m", "a", "g", "e", "]", "(">> \o url
    \o <<")", " ", " ", "\n", "\n">>

\* an image block with an external or an internal-file source URL
HasSourceURL(block) ==
    /\ block.Type = "image"
    /\ block.ImageType \in {"external", "file"}
    /\ block.URL # <<>>

\* what the body is to hold for block i of a page: for an image with a source
\* URL the fragment with the local path or, after a failed download, with the
\* remote URL; for any other block what the block gives by itself
ExpectedFragment(block, download) ==
    IF HasSourceURL(block)
    THEN ImageFragment(IF download.err THEN block.URL
                       ELSE <<"/", "i", "m", "a", "g", "e", "s", "/">> \o download.filename)
    ELSE renderBlock(block, NoDownload)

RECURSIVE ExpectedBody(_, _, _)
ExpectedBody(blocks, downloads, i) ==
    IF i > Len(blocks) THEN <<>>
    ELSE ExpectedFragment(blocks[i], downloads[i]) \o ExpectedBody(blocks, downloads, i + 1)

\* the number of places of text at which piece begins
Occurrences(text, piece) ==
    Cardinality({ n \in 1..(Len(text) - Len(piece) + 1) :
                    SubSeq(text, n, n + Len(piece) - 1) = piece })

\* C15: when the blocks of a titled page have been fetched, the body is, block
\* by block and in block order, the fragment of each block: an image with a
\* source URL gives `![Image](<url>)`, two spaces and a blank line, with
\* /images/<local file> after a download and the remote URL after a failed
\* one, so the body holds as many image fragments as the page has such
\* blocks; no download failure makes the render fail or keeps the page from
\* being written.
C15_ImageFallback ==
    (pgPc = "return" /\ ~pgResult.skipped /\ ~pgCall.fetchErr) =>
        /\ pgResult.fetched
        /\ pgResult.pageContent =
               ExpectedBody(pgCall.page.Children, pgCall.downloads, 1)
        /\ Occurrences(pgResult.pageContent, <<"!", "[", "I", "m", "a", "g", "e", "]", "(">>) =
               Cardinality({ i \in 1..Len(pgCall.page.Children) :
                               HasSourceURL(pgCall.page.Children[i]) })
        /\ pgResult.written = (~pgCall.mkdirErr /\ ~pgCall.writeErr)

\* C15 witness: a page of two images, the download of the first failed and
\* that of the second succeeded, has been rendered and written.
C15_Witness ==
    /\ pgPc = "return"
    /\ ~pgCall.fetchErr
    /\ Len(pgCall.page.Children) = 2
    /\ HasSourceURL(pgCall.page.Children[1])
    /\ HasSourceURL(pgCall.page.Children[2])
    /\ pgCall.downloads[1].err
    /\ ~pgCall.downloads[2].err
    /\ pgResult.written
    /\ pgResult.pageContent =
           ImageFragment(pgCall.page.Children[1].URL)
           \o ImageFragment(<<"/", "i", "m", "a", "g", "e", "s", "/">>
                                \o pgCall.downloads[2].filename)

----------------------------------------------------------------------------
(* Claims about the configuration *)

\* required configuration is missing: the token, or a database ID the type
\* needs, or the type is none of blog, diary, all
MissingConfiguration(e) ==
    \/ e.NotionAPIToken = ""
    \/ e.type = "blog" /\ e.NotionBlogDatabaseID = ""
    \/ e.type = "diary" /\ e.NotionDiaryDatabaseID = ""
    \/ e.type = "all" /\ (e.NotionBlogDatabaseID = "" \/ e.NotionDiaryDatabaseID = "")
    \/ e.type \notin {"blog", "diary", "all"}

\* C16: started with required configuration missing, the process is either
\* still in loadConfig or has exited there: it never gets to main, no
\* database has been fetched, no directory made, no page processed and no
\* file written.
C16_MissingConfigurationFatal ==
    MissingConfiguration(env) =>
        /\ pc \in {"loadConfig", "exited"}
        /\ config = ZeroConfig
        /\ dbConfig = ZeroConfig
        /\ todo = <<>>
        /\ pages = <<>>
        /\ processed = <<>>
        /\ dirs = {}
        /\ files = <<>>
        /\ ~last.called

\* C16 witness: with the token and the blog ID set and type all, the missing
\* diary ID has ended the process.
C16_Witness ==
    /\ env.NotionAPIToken # ""
    /\ env.NotionBlogDatabaseID # ""
    /\ env.NotionDiaryDatabaseID = ""
    /\ env.type = "all"
    /\ databases.blog # <<>>
    /\ pc = "exited"
    /\ dirs = {}
    /\ files = <<>>

----------------------------------------------------------------------------
(* Specification SpecFetch: processDatabaseType fetches one database of up  *)
(* to MaxRows rows with every setting of the two checkboxes                 *)

\* the rows of a database: a page with its `published` and `done` checkboxes
FlagRows == [ page : {FirstPost, Day}, published : BOOLEAN, done : BOOLEAN ]

\* main after loadConfig and its os.MkdirAll calls, for -type blog or diary,
\* before the call of processDatabaseType
InitFetch ==
    /\ ImageIdle
    /\ LinesIdle
    /\ LinkIdle
    /\ FmIdle
    /\ DescIdle
    /\ PageIdle
    /\ \E DatabaseType \in {"blog", "diary"} :
         \E rows \in UNION { [1..k -> FlagRows] : k \in 0..MaxRows } :
           /\ env = [ NotionAPIToken |-> "secret", NotionBlogDatabaseID |-> "b",
                      NotionDiaryDatabaseID |-> "d", type |-> DatabaseType ]
           /\ config = [ NotionAPIToken |-> "secret", NotionBlogDatabaseID |-> "b",
                         NotionDiaryDatabaseID |-> "d", DatabaseType |-> DatabaseType ]
           /\ databases = [ blog |-> IF DatabaseType = "blog" THEN rows ELSE <<>>,
                            diary |-> IF DatabaseType = "diary" THEN rows ELSE <<>> ]
           /\ todo = <<DatabaseType>>
           /\ dirs = { mainDirectories(DatabaseType)[n] :
                         n \in 1..Len(mainDirectories(DatabaseType)) }
    /\ pc = "fetch"
    /\ dbConfig = ZeroConfig
    /\ pages = <<>>
    /\ cursor = 0
    /\ processed = <<>>
    /\ files = <<>>
    /\ last = NoCall

NextFetch == FetchDatabase

SpecFetch == InitFetch /\ [][NextFetch]_vars

\* the rows of the database that is being processed
QueriedRows == IF Head(todo) = "blog" THEN databases.blog ELSE databases.diary

\* the pages of the rows whose published flag is not true and whose done flag
\* is true, in the order of the rows
RECURSIVE Listed(_)
Listed(rows) ==
    IF rows = <<>> THEN <<>>
    ELSE (IF ~Head(rows).published /\ Head(rows).done THEN <<Head(rows).page>> ELSE <<>>)
         \o Listed(Tail(rows))

\* the flags of the rows, in order
FlagsOf(rows) == [ n \in 1..Len(rows) |-> <<rows[n].published, rows[n].done>> ]

\* C17: the list processDatabaseType gets from the query, for the blog as for
\* the diary database, is the pages of exactly the rows with published not
\* true and done true, in row order; of rows {published:true,done:true},
\* {published:false,done:true}, {published:false,done:false} it is the page of
\* the second alone.
C17_ListingFilter ==
    pc = "pages" =>
        /\ pages = Listed(QueriedRows)
        /\ FlagsOf(QueriedRows) = << <<TRUE, TRUE>>, <<FALSE, TRUE>>, <<FALSE, FALSE>> >>
               => pages = << QueriedRows[2].page >>

\* C17 witness: the diary database holds the three rows of the scenario and
\* the list is the page of the second.
C17_Witness ==
    /\ pc = "pages"
    /\ todo = <<"diary">>
    /\ FlagsOf(databases.diary) = << <<TRUE, TRUE>>, <<FALSE, TRUE>>, <<FALSE, FALSE>> >>
    /\ pages = << databases.diary[2].page >>

----------------------------------------------------------------------------
(* Claims about the properties read into the frontmatter *)

\* the draft checkbox of the page is there and checked
DraftSet(page) ==
    /\ HasProperty(page, "draft")
    /\ page.Properties["draft"].Type = "checkbox"
    /\ page.Properties["draft"].Checkbox

DraftLine == <<"d", "r", "a", "f", "t", ":", " ", "t", "r", "u", "e">>

\* the lines of a written file
FileLines(text) == Split(text, "\n")

\* C18: the file written for an entry holds the line `draft: true` when the
\* draft property of the entry is set, and no draft line when it is not.
C18_DraftExtracted ==
    (pgPc = "return" /\ pgResult.written) =>
        /\ DraftSet(pgCall.page) =>
               \E n \in 1..Len(FileLines(pgResult.content)) :
                   FileLines(pgResult.content)[n] = DraftLine
        /\ ~DraftSet(pgCall.page) => ~HasLine(pgResult.content, KeyDraft)

\* the text of a rich-text property of the page, <<>> when the page has none
PropertyText(page, name) ==
    IF /\ HasProperty(page, name)
       /\ page.Properties[name].Type = "rich_text"
       /\ Len(page.Properties[name].RichText) > 0
    THEN page.Properties[name].RichText[1].PlainText
    ELSE <<>>

\* C19: for a diary entry the frontmatter description is the description
\* property of the page with its markdown links made plain text, and unset
\* when the page has none, whatever the body is; the weather field is the
\* weather property as it stands.
C19_DiaryDescription ==
    (pgPc = "return" /\ ~pgResult.skipped /\ pgCall.DatabaseType = "diary") =>
        /\ pgResult.frontmatter.Description =
               convertMarkdownLinksToPlainText(PropertyText(pgCall.page, "description"))
        /\ HasLine(generateFrontmatterYAML(pgResult.frontmatter), KeyDescription)
               = HasProperty(pgCall.page, "description")
        /\ pgResult.frontmatter.Weather = PropertyText(pgCall.page, "weather")

----------------------------------------------------------------------------
(* Claims about the title *)

\* the aliases in their order of priority
AliasOrder == <<"title", "Title", "Name", "titile">>

\* the places in AliasOrder of the aliases under which the page holds a
\* non-empty title
TitledAliases(page) ==
    { n \in 1..Len(AliasOrder) :
        /\ HasProperty(page, AliasOrder[n])
        /\ titleOfProperty(page.Properties[AliasOrder[n]]) # <<>> }

\* the least number of a non-empty set of numbers
Least(S) == CHOOSE n \in S : \A k \in S : n <= k

\* C20: the title processPage resolves is the title under the first alias, in
\* the order title, Title, Name, titile, that is present and holds a non-empty
\* title, whatever the aliases before it hold; the page is skipped only when
\* there is no such alias.
C20_FirstNonEmptyAlias ==
    pgPc = "return" =>
        IF TitledAliases(pgCall.page) = {}
        THEN pgResult.skipped
        ELSE /\ ~pgResult.skipped
             /\ pgResult.frontmatter.Title =
                    titleOfProperty(
                        pgCall.page.Properties[AliasOrder[Least(TitledAliases(pgCall.page))]])

----------------------------------------------------------------------------
(* Claims about the write of the file *)

\* the paths at which the files differ before and after a step
ChangedPaths(before, after) ==
    { p \in (DOMAIN before) \cup (DOMAIN after) :
        \/ p \notin DOMAIN before
        \/ p \notin DOMAIN after
        \/ before[p] # after[p] }

\* the document of a result: frontmatter between its delimiters, then the
\* body, through processEmptyLines
AssembledDocument(result) ==
    processEmptyLines(FrontmatterOpen \o generateFrontmatterYAML(result.frontmatter)
                      \o FrontmatterClose \o result.pageContent)

\* C21: files change in a turn of the page loop only; a turn issues at most
\* one write, at the path of its entry, and the data of that write is the
\* whole assembled document; a turn whose assembly is abandoned (the entry has
\* no title) issues no write and leaves every file as it was.
C21_WriteAfterAssembly ==
    /\ [][ files' # files => (pc = "pages" /\ cursor' = cursor + 1) ]_vars
    /\ [][ (pc = "pages" /\ cursor <= Len(pages) /\ cursor' = cursor + 1) =>
             /\ last'.result.writeCalls \in {0, 1}
             /\ ChangedPaths(files, files') \subseteq {pathOf(last'.result)}
             /\ last'.result.writeCalls = 0 => files' = files
             /\ last'.result.writeCalls = 1 =>
                    last'.result.content = AssembledDocument(last'.result)
             /\ last'.result.written =>
                    files'[pathOf(last'.result)] = AssembledDocument(last'.result)
             /\ pageTitle(pages[cursor]) = <<>> =>
                    /\ last'.result.writeCalls = 0
                    /\ files' = files ]_vars

\* C21 witness: the entry before the last was written, the last one had no
\* title, no write was issued for it and the file of the first is whole.
C21_Witness ==
    /\ Len(processed) = 2
    /\ pageTitle(processed[2]) = <<>>
    /\ last.page = processed[2]
    /\ last.result.writeCalls = 0
    /\ \E path \in DOMAIN files :
           \E fetchErr \in BOOLEAN, downloads \in DownloadsFor(processed[1].Children) :
               files[path] = processPage(processed[1], last.DatabaseType, fetchErr,
                                         downloads, FALSE, FALSE).content

----------------------------------------------------------------------------
(* Claims about lists *)

\* `1. `, the spans, two spaces and a newline
NumberedFragment(block) ==
    <<"1", ".", " ">> \o extractRichText(block.RichText) \o <<" ", " ", "\n">>

\* the body in which every item of a numbered list stands as NumberedFragment
\* and every other block as it renders by itself
RECURSIVE BodyWithItems(_, _, _)
BodyWithItems(blocks, downloads, i) ==
    IF i > Len(blocks) THEN <<>>
    ELSE (IF blocks[i].Type = "numbered_list_item"
          THEN NumberedFragment(blocks[i])
          ELSE renderBlock(blocks[i], downloads[i]))
         \o BodyWithItems(blocks, downloads, i + 1)

----------------------------------------------------------------------------
(* Claims about rich text *)

\* the piece of a span: its plain text, or `[plainText](linkURL)`
SpanPiece(span) ==
    IF span.Href = <<>> THEN span.PlainText
    ELSE <<"[">> \o span.PlainText \o <<"]">> \o <<"(">> \o span.Href \o <<")">>

\* the pieces of the spans one after the other, nothing between them
PiecesOf(spans) ==
    LET RECURSIVE upTo(_)
        upTo(n) == IF n = 0 THEN <<>> ELSE upTo(n - 1) \o SpanPiece(spans[n])
    IN  upTo(Len(spans))

\* C23: the text extractRichText gives for the spans of a paragraph is the
\* pieces of the spans in their order with nothing between them, a span
\* without a link giving its plain text and a span with a link giving
\* `[plainText](linkURL)`; no span gives the empty text.  The paragraph stands
\* in the body as that text, two spaces and a blank line.
C23_SpansInOrder ==
    (pgPc = "return" /\ pgCall.page \in RichTextPages /\ ~pgCall.fetchErr) =>
        /\ extractRichText(pgCall.page.Children[1].RichText) =
               PiecesOf(pgCall.page.Children[1].RichText)
        /\ pgResult.pageContent =
               PiecesOf(pgCall.page.Children[1].RichText) \o <<" ", " ", "\n", "\n">>
        /\ pgCall.page.Children[1].RichText = <<>> =>
               extractRichText(pgCall.page.Children[1].RichText) = <<>>

\* C23 witness: a paragraph of a plain span, a span with a link and a span of
\* one multi-byte character has been rendered as `a [c](u)`, then the
\* character.
C23_Witness ==
    /\ pgPc = "return"
    /\ pgCall.page \in RichTextPages
    /\ ~pgCall.fetchErr
    /\ Len(pgCall.page.Children[1].RichText) = 3
    /\ pgResult.pageContent =
           <<"a", " ", "[", "c", "]", "(", "u", ")", "U3042", " ", " ", "\n", "\n">>

----------------------------------------------------------------------------
(* Claims about the output paths *)

\* the page at the cursor is none of the entries the loop has had before it
NewEntry ==
    \A k \in 1..Len(processed) : processed[k].ID # pages[cursor].ID

\* C24: in a run that starts with no files, the write for an entry never goes
\* to a path at which an entry processed before it, a different one, has its
\* file: no two entries of a list share an output path, whether or not they
\* share a title or, in the diary, title and creation date.
C24_OwnPath ==
    [][ ( /\ pc = "pages"
          /\ cursor <= Len(pages)
          /\ cursor' = cursor + 1
          /\ NewEntry
          /\ last'.result.written )
        => pathOf(last'.result) \notin DOMAIN files ]_vars

\* text ends with tail
IsSuffix(tail, text) ==
    /\ Len(tail) <= Len(text)
    /\ SubSeq(text, Len(text) - Len(tail) + 1, Len(text)) = tail

\* C25: the name of a written file ends with the title of its frontmatter
\* (the characters no filename may hold replaced by `_`) and `.md`, under
\* whichever alias the title was found, and it is not the page ID that names
\* the file.
C25_StemIsFrontmatterTitle ==
    (pgPc = "return" /\ pgResult.written) =>
        /\ IsSuffix(Sanitized(pgResult.frontmatter.Title) \o <<".", "m", "d">>,
                    pgResult.filename)
        /\ ~IsSuffix(pgCall.page.ID \o <<".", "m", "d">>, pgResult.filename)

----------------------------------------------------------------------------
(* Claims about what processEmptyLines leaves alone *)

\* C26: after a pass of processEmptyLines the lines that are not blank are
\* those of the text before the pass, each as it was, trailing spaces and
\* all, and in the same order; and the text has no more lines than before.
C26_OnlyBlankLinesDeleted ==
    passes >= 1 =>
        /\ NonBlankLines(Split(content, "\n")) = NonBlankLines(Split(previous, "\n"))
        /\ Len(Split(content, "\n")) <= Len(Split(previous, "\n"))

\* C26 witness: a pass has deleted a blank line from a text that has a line
\* ending in two spaces, and that line is in the result as it was.
C26_Witness ==
    /\ passes = 1
    /\ Len(Split(content, "\n")) < Len(Split(previous, "\n"))
    /\ \E n \in 1..Len(Split(content, "\n")) :
           Split(content, "\n")[n] = <<"a", " ", " ">>

----------------------------------------------------------------------------
(* Claims about code blocks *)

\* the lines of a file that begin with a code fence
FenceLines(lines) == { n \in 1..Len(lines) : IsPrefix(CodeFence, lines[n]) }

\* the lines between the first fence of a file and the fence after it
FencedLines(text) ==
    LET lines == Split(text, "\n")
        open == CHOOSE n \in FenceLines(lines) : \A k \in FenceLines(lines) : n <= k
        close == CHOOSE n \in FenceLines(lines) \ {open} :
                     \A k \in FenceLines(lines) \ {open} : n <= k
    IN  SubSeq(lines, open + 1, close - 1)

\* C27: in the file written for a page of one code block the lines between
\* the fences are the lines of the block's text, blank lines included, the
\* last of them followed by the two spaces the block is rendered with.
C27_CodeTextKept ==
    (pgPc = "return" /\ pgCall.page \in CodePages /\ pgResult.written
        /\ ~pgCall.fetchErr) =>
        FencedLines(pgResult.content) =
            Split(pgCall.page.Children[1].RichText[1].PlainText \o <<" ", " ">>, "\n")

----------------------------------------------------------------------------
(* downloadImage *)

\* strings.ToLower of one character, for the letters the URLs below use
LowerOf(c) ==
    CASE c = "J" -> "j"
      [] c = "P" -> "p"
      [] c = "G" -> "g"
      [] c = "N" -> "n"
      [] OTHER -> c

ToLower(s) == [ i \in 1..Len(s) |-> LowerOf(s[i]) ]

\* The extension downloadImage takes from the URL: what follows the last
\* ".", cut at the first "?" and then at the first "/", in lower case; "jpg"
\* when the URL has no "."
extOf(url) ==
    LET urlParts == Split(url, ".")
        last_ == urlParts[Len(urlParts)]
        ext == IF Len(urlParts) > 1
               THEN Split(Split(last_, "?")[1], "/")[1]
               ELSE <<"j", "p", "g">>
    IN  ToLower(ext)

\* the URLs downloadImage is called with
URLList ==
    << <<"h", ".", "j", "p", "g">>,
       <<"h", ".", "J", "P", "G">>,
       <<"h", ".", "j", "p", "e", "g", "?", "x">>,
       <<"h", ".", "p", "n", "g">>,
       <<"h", ".", "g", "i", "f">>,
       <<"h", ".", "g", "i", "f", "/", "v">>,
       <<"h">> >>

ImageURLs == { URLList[i] : i \in 1..Len(URLList) }

\* the first 16 hexadecimal digits of the SHA-256 of the URL: one digest for
\* each URL, no two URLs sharing one
hashOf(url) == <<"#", Digit(CHOOSE i \in 1..Len(URLList) : URLList[i] = url)>>

\* the page the images belong to
ImagePageID == <<"p", "1">>

\* fmt.Sprintf("%s_%s.%s", pageID, hash, ext)
imageFilename(pageID, url) == pageID \o <<"_">> \o hashOf(url) \o <<".">> \o extOf(url)

\* the extensions that are encoded again; every other one is copied
ReEncoded == { <<"j", "p", "g">>, <<"j", "p", "e", "g">>, <<"p", "n", "g">> }

\* where a call that goes past the file-exists check can end
DownloadOutcomes ==
    {"getFailed", "badStatus", "decodeFailed", "createFailed",
     "writeFailed", "regetFailed", "regetBadStatus", "saved"}

\* what a write that fails part-way leaves in the file os.Create made
PartialContents == {"empty", "partial"}

\* One call of downloadImage for page pageID and URL url, with the file
\* at outputPath holding disk: the file afterwards and what is returned.
\* The file is "none" (there is no file), "complete" (the whole image),
\* "empty", "partial", or "errorPage" (the body of a reply that was not
\* the image).
\* outcome says where the call ends and left what a failed write leaves.
downloadImage(url, pageID, disk, outcome, left) ==
    LET ext == extOf(url)
        filename == imageFilename(pageID, url)
        returned(at, d, failedWrite, isErr) ==
            [ disk |-> d,
              result |-> [ called |-> TRUE, ext |-> ext, leftAt |-> at,
                           writeFailed |-> failedWrite,
                           filename |-> IF isErr THEN <<>> ELSE filename,
                           err |-> isErr ] ]
    IN  IF disk # "none" THEN returned("exists", disk, FALSE, FALSE)
        ELSE IF outcome \in {"getFailed", "badStatus", "decodeFailed", "createFailed"}
        THEN returned(outcome, disk, FALSE, TRUE)
        ELSE IF ext \in ReEncoded
        THEN IF outcome = "writeFailed"
             THEN returned("writeFailed", left, TRUE, TRUE)
             ELSE returned("saved", "complete", FALSE, FALSE)
        ELSE IF outcome = "regetFailed"
        THEN returned("regetFailed", "empty", FALSE, TRUE)
        ELSE IF outcome = "regetBadStatus"
        THEN returned("regetBadStatus", "errorPage", FALSE, FALSE)
        ELSE IF outcome = "writeFailed"
        \* io.Copy's error is assigned to a new err of the default branch
        THEN returned("writeFailed", left, TRUE, FALSE)
        ELSE returned("saved", "complete", FALSE, FALSE)

InitImage ==
    /\ imgURL \in ImageURLs
    /\ imgDisk = "none"
    /\ imgCalls = 0
    /\ imgLast = NoDownloadCall
    /\ BatchIdle
    /\ PageIdle
    /\ LinesIdle
    /\ LinkIdle
    /\ FmIdle
    /\ DescIdle

\* downloadImage is called once more for the same page and URL
DownloadImage ==
    /\ imgCalls < MaxCalls
    /\ \E outcome \in DownloadOutcomes, left \in PartialContents :
           LET call == downloadImage(imgURL, ImagePageID, imgDisk, outcome, left)
           IN  /\ imgDisk' = call.disk
               /\ imgLast' = call.result
    /\ imgCalls' = imgCalls + 1
    /\ UNCHANGED <<imgURL, linesVars, linkVars, fmVars, descVars, pageVars, batchVars>>

NextImage == DownloadImage

SpecImage == InitImage /\ [][NextImage]_vars

\* C28: when a call of downloadImage returns a filename and no error, the
\* file at the returned path holds the whole image, whatever the calls
\* before it for the same page and URL did.
C28_SuccessMeansCompleteFile ==
    (imgLast.called /\ ~imgLast.err) => imgDisk = "complete"

\* C29: a call of downloadImage in which writing the image to the output
\* file fails returns an error and no filename, whatever the extension.
C29_WriteFailureIsError ==
    (imgLast.called /\ imgLast.writeFailed) =>
        (imgLast.err /\ imgLast.filename = <<>>)

----------------------------------------------------------------------------
(* fetchDatabase on a database larger than one query page *)

\* the n-th entry of a large database: a post of its own title and ID
BulkPage(n) ==
    LET number == <<Digit(n \div 100), Digit((n \div 10) % 10), Digit(n % 10)>>
    IN  [ ID |-> <<"e">> \o number,
          Properties |-> [ k \in {"title"} |-> TitleProperty(<<"E">> \o number) ],
          CreatedTime |-> [year |-> 2023, month |-> 1, day |-> 1],
          Children |-> <<ParagraphBlock(<<PlainSpan(HelloWorld)>>)>> ]

\* a database of n entries, all done, those of `hidden` already published
BulkRows(n, hidden) ==
    [ i \in 1..n |-> [ page |-> BulkPage(i), published |-> i \in hidden, done |-> TRUE ] ]

\* main after loadConfig and its os.MkdirAll calls, for -type blog or diary,
\* before the call of processDatabaseType, the database holding about
\* PageSize entries
InitBulk ==
    /\ ImageIdle
    /\ LinesIdle
    /\ LinkIdle
    /\ FmIdle
    /\ DescIdle
    /\ PageIdle
    /\ \E DatabaseType \in {"blog", "diary"} :
         \E n \in (PageSize - 1)..(PageSize + MaxExtra), hidden \in SUBSET (1..MaxHidden) :
           LET rows == BulkRows(n, hidden)
           IN  /\ env = [ NotionAPIToken |-> "secret", NotionBlogDatabaseID |-> "b",
                          NotionDiaryDatabaseID |-> "d", type |-> DatabaseType ]
               /\ config = [ NotionAPIToken |-> "secret", NotionBlogDatabaseID |-> "b",
                             NotionDiaryDatabaseID |-> "d", DatabaseType |-> DatabaseType ]
               /\ databases = [ blog |-> IF DatabaseType = "blog" THEN rows ELSE <<>>,
                                diary |-> IF DatabaseType = "diary" THEN rows ELSE <<>> ]
               /\ todo = <<DatabaseType>>
               /\ dirs = { mainDirectories(DatabaseType)[k] :
                             k \in 1..Len(mainDirectories(DatabaseType)) }
    /\ pc = "fetch"
    /\ dbConfig = ZeroConfig
    /\ pages = <<>>
    /\ cursor = 0
    /\ processed = <<>>
    /\ files = <<>>
    /\ last = NoCall

NextBulk == FetchDatabase

SpecBulk == InitBulk /\ [][NextBulk]_vars

\* the entries of the queried database that match the filter
MatchingRows ==
    SelectSeq(QueriedRows, LAMBDA row : row.published # TRUE /\ row.done = TRUE)

\* C30: the list fetchDatabase hands to the loop of processDatabaseType, the
\* only pages the run processes, holds every entry of the database that
\* matches the filter, however many there are.
C30_EveryMatchingEntryListed ==
    pc = "pages" =>
        /\ Len(pages) = Len(MatchingRows)
        /\ \A i \in 1..Len(MatchingRows) :
               \E k \in 1..Len(pages) : pages[k].ID = MatchingRows[i].page.ID

====
